---- MODULE Spec2Model ----
(***************************************************************************)
(* Verification model of the performance-testing repository.               *)
(*                                                                         *)
(*  SpecPipeline  the log-mining pipeline: two extractors                  *)
(*                (log-parser/log_traffic_extractor.py, the "pmm" source,  *)
(*                and log-parser/pplmag_extractor.py) collect events,      *)
(*                build their streams, and log-parser/merge_traffic.py     *)
(*                merges the built streams.                                *)
(*  Spec          the wave scheduler of api_flow_v2.py                     *)
(*                (run_wave_execution) with its session flows.             *)
(*  SpecFlow      one session flow (APIFlow.run_sequential_flow of         *)
(*                api_flow.py and of api_flow_v2.py), request by request.  *)
(*  SpecLines     one log line handed to each line parser of log-parser/.  *)
(***************************************************************************)
EXTENDS Integers, Sequences, FiniteSets, Bags, TLC

(***************************************************************************)
(* Bounds of the model.                                                    *)
(***************************************************************************)
\* Timestamps of extracted events are 1..MaxTs (0 is the codec's sentinel
\* and is never emitted by process_line).
MaxTs == 2
\* Total number of events collected over all log sources of one run.
MaxTotalEvents == 3
\* run_wave_execution is called with 1 <= rps <= MaxRps (main calls it only
\* when rps > 0), 0 <= duration <= MaxDuration, and rps * duration <= MaxSessions.
MaxRps == 3
MaxDuration == 2
MaxSessions == 6
\* Python floats are binary floating point, round to nearest, ties to even.
\* The model keeps MantissaBits significant bits (CPython: 53) and counts
\* values in units of 2^-FracBits ms.
MantissaBits == 5
FracBits == 1
\* The scheduler's clock (time.perf_counter) is read in ticks of
\* 1/TicksPerSecond s; a reading of the time since a wave's start is at most
\* MaxElapsed ticks, and time.sleep returns at most MaxOversleep ticks late.
TicksPerSecond == 2
MaxElapsed == 3
MaxOversleep == 1
\* The sessions of a run checked for termination.
LiveMaxSessions == 4
\* A puzzle's gridWidth and gridHeight are 0..MaxDim (or those of the
\* 5 x 37 grid), and the random choices of the grid-state generators fall on
\* the first MaxPos cells.
MaxDim == 2
MaxPos == 2
\* The longest grid handed to _mutate_state on its own.
MaxGridLen == 6
\* merge_traffic.py on its own: the input files hold at most MaxMergeLines
\* lines between them, and a record's ts, when it has one, is 0..MaxMergeTs.
MaxMergeLines == 3
MaxMergeTs == 1
\* transform_for_pplmag.py: the input file holds at most MaxTransformLines lines.
MaxTransformLines == 3

(***************************************************************************)
(* Program constants.                                                      *)
(***************************************************************************)
\* `for i in range(10)` in step4_post_plays
NumPlays == 10
\* STATE_LEN of api_flow_v2.py
STATE_LEN == 185
\* puzzle.get('gridWidth', 5), puzzle.get('gridHeight', 5) in api_flow.py
DefaultDim == 5
\* num_changes = random.randint(1, min(5, len(p)))
MaxChanges == 5

VARIABLES
    \* ---- pipeline ----
    logs,       \* logs[f]: the `events` list of extractor f after its read loop
    built,      \* built[f]: the stream extractor f wrote (<<>> before it ran)
    merged,     \* merged[j]: output file of merge run j (<<>> before it ran)
    altDelay,   \* the delayMs value planted in the inputs of merge run "ALT"
    ppc,        \* position in the pipeline script
    \* ---- wave scheduler (run_wave_execution) ----
    rps,            \* argument rps
    duration,       \* argument duration
    wave_num,       \* the loop variable of `for wave_num in range(duration)`
    pc,             \* position of the scheduler thread
    nsub,           \* futures submitted so far in the current wave
    fut,            \* fut[i]: state of the i-th future of the current wave
    yielded,        \* futures as_completed has already yielded
    wave_results,   \* the current wave's result collection
    waves,          \* the run's list of wave statistics
    all_results,    \* the run's list of per-session entries
    elapsed,        \* the local `elapsed`: perf_counter() - wave_start, as last read
    sleep_time,     \* the local `sleep_time` of the current wave (0 before it is set)
    active,         \* history: sessions launched and not yet terminal, as <<wave, i>>
    launches,       \* history: launches[w] = sessions launched in wave w
    ran,            \* history: ran[w] = bag of the outcomes of the sessions launched in wave w
    slept,          \* history: ticks spent in time.sleep since the current wave's start
    \* ---- one session flow (APIFlow) ----
    fver,           \* which program runs: "api_flow" or "api_flow_v2"
    fscript,        \* the server's behaviour towards the session
    fcrosswords,    \* the crosswords the server holds (puzzleDetails dicts)
    fpc,            \* position of the flow
    fit,            \* step4_post_plays: the iteration i + 1
    fresults,       \* run_sequential_flow: the dict `results`
    fiters,         \* step4_post_plays: the list `results`
    fprimary,       \* step4_post_plays: the local `primary`
    fsecondary,     \* step4_post_plays: the local `secondary`
    fposted,        \* primaryState / secondaryState of the last play post sent
    fsent,          \* history: the requests sent so far
    fcontext,       \* self.context: the keys uid, load_token, crossword_params,
                    \* decoded_play and play_id
    fcarried,       \* history: the loadToken and the uid of each request sent, and
                    \* the play fields of each play post
    fout,           \* the outcome of run_sequential_flow, once it ended
    \* ---- one log line and the line parsers ----
    line,           \* the log line
    resolved,       \* resolved[x]: what extract_user_id of extractor x returned
    event,          \* event[x]: what the line parser x returned
    lpc,            \* the parser to run next
    \* ---- one run of merge_traffic.py ----
    minputs,        \* the input files named on the command line, as found on disk
    mstats,         \* the dict `stats` merge_and_sort returned
    mout,           \* the lines of the output file
    magain,         \* the output of a second run, on the first run's output file
    mpc,            \* position of the run
    \* ---- one run of transform_for_pplmag.py ----
    tinput,         \* the lines of the input file
    toutput,        \* the lines of the output file
    tpc             \* position of the run

pipeVars == <<logs, built, merged, altDelay, ppc>>

waveVars == <<rps, duration, wave_num, pc, nsub, fut, yielded, wave_results,
              waves, all_results, elapsed, sleep_time, active, launches, ran, slept>>

flowVars == <<fver, fscript, fcrosswords, fpc, fit, fresults, fiters, fprimary,
              fsecondary, fposted, fsent, fcontext, fcarried, fout>>

lineVars == <<line, resolved, event, lpc>>

batchVars == <<minputs, mstats, mout, magain, mpc, tinput, toutput, tpc>>

vars == <<logs, built, merged, altDelay, ppc,
          rps, duration, wave_num, pc, nsub, fut, yielded, wave_results,
          waves, all_results, elapsed, sleep_time, active, launches, ran, slept,
          fver, fscript, fcrosswords, fpc, fit, fresults, fiters, fprimary,
          fsecondary, fposted, fsent, fcontext, fcarried, fout,
          line, resolved, event, lpc,
          minputs, mstats, mout, magain, mpc, tinput, toutput, tpc>>

(***************************************************************************)
(* Python helpers.                                                         *)
(***************************************************************************)
\* dict.get(k, default) on a dict modelled as a function over its keys.
Get(d, k, default) == IF k \in DOMAIN d THEN d[k] ELSE default

Max(a, b) == IF a >= b THEN a ELSE b

\* JSON null / Python None as a userId.
NoUser == "None"

Users == {"u1", "u2"}

(***************************************************************************)
(* The extractors: what process_line hands to main.                        *)
(***************************************************************************)
Sources == {1, 2, 3}

\* Source 1 is a log_traffic_extractor ("pmm") stream, the others are
\* pplmag_extractor streams (merge_traffic's presets list pmm, then pplmag).
Variant(f) == IF f = 1 THEN "pmm" ELSE "pplmag"

\* log_traffic_extractor.process_line: every event has a userId.
PmmEvents ==
    { [ts |-> t, endpoint |-> "/api/v1/plays", userId |-> u] :
        t \in 1..MaxTs, u \in Users }

\* pplmag_extractor.process_line: userId is required for /api/v1/plays and
\* /postPickerStatus only; a game page may carry userId None.
PplmagEvents ==
    { [ts |-> t, endpoint |-> "/api/v1/plays", method |-> "POST", userId |-> u] :
        t \in 1..MaxTs, u \in Users }
    \cup
    { [ts |-> t, endpoint |-> "/crossword", method |-> "GET", userId |-> NoUser] :
        t \in 1..MaxTs }

ExtractedEvents(f) == IF Variant(f) = "pmm" THEN PmmEvents ELSE PplmagEvents

(***************************************************************************)
(* Stable sort by ts (Python's list.sort is stable): insertion from the    *)
(* left, each element placed after every element whose key is <= its own.  *)
(***************************************************************************)
\* r.get('ts', 0); an extractor's events always carry ts, so x['ts'] is the
\* same value there.
TsKey(r) == Get(r, "ts", 0)

\* Mutant of InsertByTs: the element is placed before the elements of its key.
RECURSIVE InsertByTs_Unstable(_, _)
InsertByTs_Unstable(x, s) ==
    IF s = <<>> THEN <<x>>
    ELSE IF TsKey(Head(s)) < TsKey(x)
         THEN <<Head(s)>> \o InsertByTs_Unstable(x, Tail(s))
         ELSE <<x>> \o s

RECURSIVE InsertByTs(_, _)
InsertByTs(x, s) ==
    IF s = <<>> THEN <<x>>
    ELSE IF TsKey(Head(s)) <= TsKey(x)
         THEN <<Head(s)>> \o InsertByTs(x, Tail(s))
         ELSE <<x>> \o s

RECURSIVE StableSortByTs(_)
StableSortByTs(s) ==
    IF s = <<>> THEN <<>>
    ELSE InsertByTs(s[Len(s)], StableSortByTs(SubSeq(s, 1, Len(s) - 1)))

(***************************************************************************)
(* log_traffic_extractor.main: the passes over the collected events.       *)
(***************************************************************************)
\* The order in which main walks the events: the order they were read in
\* (main has no sort between the read loop and the passes).
PmmOrder(events) == events

\* Reverse pass, i = len-1 .. 0: `user_id is not None and user_id not in seen_users`.
RECURSIVE PmmMarkPass(_, _, _, _)
PmmMarkPass(events, i, seen, marks) ==
    IF i = 0 THEN marks
    ELSE LET u == events[i].userId
             fresh == u # NoUser /\ u \notin seen
         IN  PmmMarkPass(events, i - 1,
                         IF fresh THEN seen \cup {u} ELSE seen,
                         IF fresh THEN [marks EXCEPT ![i] = 1] ELSE marks)

PmmIsLastReq(events) ==
    PmmMarkPass(events, Len(events), {}, [i \in 1..Len(events) |-> 0])

\* Mutant of PmmDelayMs: the negative gap is not clamped.
PmmDelayMs_NoClamp(events, i) ==
    IF i < Len(events) THEN events[i + 1].ts - events[i].ts ELSE 0

\* Forward pass: delay to the next event, negative clamped to 0, last is 0.
PmmDelayMs(events, i) ==
    IF i < Len(events)
    THEN LET d == events[i + 1].ts - events[i].ts
         IN  IF d < 0 THEN 0 ELSE d
    ELSE 0

PmmMain(collected) ==
    LET events == PmmOrder(collected)
        marks  == PmmIsLastReq(events)
    IN  [i \in 1..Len(events) |->
            [ts        |-> events[i].ts,
             endpoint  |-> events[i].endpoint,
             userId    |-> events[i].userId,
             delayMs   |-> PmmDelayMs(events, i),
             isLastReq |-> marks[i]]]

(***************************************************************************)
(* pplmag_extractor.main: sort, then the same two passes.                  *)
(***************************************************************************)
\* events.sort(key=lambda x: x['ts'])
PplmagSort(events) == StableSortByTs(events)

\* Reverse pass: `user_id and user_id not in seen_users` (None and "" are falsy).
RECURSIVE PplmagMarkPass(_, _, _, _)
PplmagMarkPass(events, i, seen, marks) ==
    IF i = 0 THEN marks
    ELSE LET u == events[i].userId
             fresh == u # NoUser /\ u # "" /\ u \notin seen
         IN  PplmagMarkPass(events, i - 1,
                            IF fresh THEN seen \cup {u} ELSE seen,
                            IF fresh THEN [marks EXCEPT ![i] = 1] ELSE marks)

PplmagIsLastReq(events) ==
    PplmagMarkPass(events, Len(events), {}, [i \in 1..Len(events) |-> 0])

PplmagDelayMs(events, i) ==
    IF i < Len(events)
    THEN LET d == events[i + 1].ts - events[i].ts
         IN  IF d < 0 THEN 0 ELSE d
    ELSE 0

PplmagMain(collected) ==
    LET events == PplmagSort(collected)
        marks  == PplmagIsLastReq(events)
    IN  [i \in 1..Len(events) |->
            [ts        |-> events[i].ts,
             endpoint  |-> events[i].endpoint,
             method    |-> events[i].method,
             userId    |-> events[i].userId,
             delayMs   |-> PplmagDelayMs(events, i),
             isLastReq |-> marks[i]]]

(***************************************************************************)
(* merge_traffic.merge_and_sort                                            *)
(***************************************************************************)
\* The load loop: the records of the input files, in file order and, within
\* a file, in line order.
\* Mutant of LoadRecords: only the first file is loaded.
LoadRecords_FirstOnly(files) == IF files = <<>> THEN <<>> ELSE Head(files)

RECURSIVE LoadRecords(_)
LoadRecords(files) ==
    IF files = <<>> THEN <<>>
    ELSE Head(files) \o LoadRecords(Tail(files))

\* Mutant of SortRecords: the records stay in load order.
SortRecords_LoadOrder(all_records) == all_records

\* all_records.sort(key=lambda r: r.get('ts', 0))
SortRecords(all_records) == StableSortByTs(all_records)

\* Mutant of SetDelay: the record's last-request mark is cleared as well.
SetDelay_ClearMark(r, v) ==
    [k \in DOMAIN r \cup {"delayMs"} |->
        IF k = "delayMs" THEN v ELSE IF k = "isLastReq" THEN 0 ELSE r[k]]

\* record['delayMs'] = v (adds the key when the record has none)
SetDelay(r, v) ==
    [k \in DOMAIN r \cup {"delayMs"} |-> IF k = "delayMs" THEN v ELSE r[k]]

\* Mutant of MergeDelayMs: the gap is added to the delayMs the record came with.
MergeDelayMs_Accumulate(all_records, i) ==
    Get(all_records[i], "delayMs", 0) +
        (IF i < Len(all_records)
         THEN Max(0, TsKey(all_records[i + 1]) - TsKey(all_records[i]))
         ELSE 0)

\* The value the recompute loop stores at index i of the sorted records.
MergeDelayMs(all_records, i) ==
    IF i < Len(all_records)
    THEN Max(0, TsKey(all_records[i + 1]) - TsKey(all_records[i]))
    ELSE 0

\* Mutant of RecomputeDelays: the incoming delayMs values are kept.
RecomputeDelays_Keep(all_records) == all_records

RecomputeDelays(all_records) ==
    [i \in 1..Len(all_records) |->
        SetDelay(all_records[i], MergeDelayMs(all_records, i))]

MergeAndSort(files) == RecomputeDelays(SortRecords(LoadRecords(files)))

(***************************************************************************)
(* The pipeline: read, run the three extractors, run the merges.           *)
(***************************************************************************)
MergeJobs == {"AB", "AB_C", "BC", "BC_A", "ALL"}

\* The runs of the pipeline, in the order they are made.
NextStep(p) ==
    CASE p = "read"    -> "extract1"
      [] p = "extract1" -> "extract2"
      [] p = "extract2" -> "extract3"
      [] p = "extract3" -> "AB"
      [] p = "AB"      -> "AB_C"
      [] p = "AB_C"    -> "BC"
      [] p = "BC"      -> "BC_A"
      [] p = "BC_A"    -> "ALL"
      [] p = "ALL"     -> "ALT"
      [] OTHER         -> "done"

\* The input files of merge run j.
MergeInputs(j) ==
    CASE j = "AB"   -> <<built[1], built[2]>>
      [] j = "AB_C" -> <<merged["AB"], built[3]>>
      [] j = "BC"   -> <<built[2], built[3]>>
      [] j = "BC_A" -> <<merged["BC"], built[1]>>
      [] OTHER      -> <<built[1], built[2], built[3]>>

\* The same files with every incoming delayMs replaced by d.
WithDelay(files, d) ==
    [f \in 1..Len(files) |->
        [i \in 1..Len(files[f]) |-> SetDelay(files[f][i], d)]]

AltDelays == {0, MaxTs + 1}

TotalEvents == Len(logs[1]) + Len(logs[2]) + Len(logs[3])

\* No session flow is under way.
NoFlow ==
    /\ fver = "api_flow_v2"
    /\ fscript = [failAt |-> 0, kind |-> "ok", lat |-> 0]
    /\ fcrosswords = <<>>
    /\ fpc = "done"
    /\ fit = 0
    /\ fresults = <<>> /\ fiters = <<>>
    /\ fprimary = <<>> /\ fsecondary = <<>>
    /\ fposted = [primaryState |-> <<"None">>, secondaryState |-> <<"None">>]
    /\ fsent = <<>>
    /\ fcontext = <<>>
    /\ fcarried = <<>>
    /\ fout = [exc |-> "none", msg |-> "", value |-> <<>>]

\* No log line is being parsed.
NoLine ==
    /\ line = <<>>
    /\ resolved = <<>>
    /\ event = <<>>
    /\ lpc = "done"

\* Neither merge_traffic.py nor transform_for_pplmag.py is run on its own.
NoBatch ==
    /\ minputs = <<>>
    /\ mstats = <<>>
    /\ mout = <<>>
    /\ magain = <<>>
    /\ mpc = "done"
    /\ tinput = <<>>
    /\ toutput = <<>>
    /\ tpc = "done"

PipeInit ==
    /\ logs = [f \in Sources |-> <<>>]
    /\ built = [f \in Sources |-> <<>>]
    /\ merged = [j \in MergeJobs \cup {"ALT"} |-> <<>>]
    /\ altDelay = 0
    /\ ppc = "read"
    /\ rps = 1 /\ duration = 0 /\ wave_num = 0 /\ pc = "returned" /\ nsub = 0
    /\ fut = <<>> /\ yielded = {} /\ wave_results = <<>> /\ waves = <<>>
    /\ all_results = <<>> /\ active = {} /\ launches = <<>>
    /\ elapsed = 0 /\ sleep_time = 0 /\ ran = <<>> /\ slept = 0
    /\ NoFlow
    /\ NoLine
    /\ NoBatch

\* One pass of an extractor's read loop that yields an event.
ReadLine(f, e) ==
    /\ ppc = "read"
    /\ TotalEvents < MaxTotalEvents
    /\ logs' = [logs EXCEPT ![f] = Append(@, e)]
    /\ UNCHANGED <<built, merged, altDelay, ppc>>
    /\ UNCHANGED <<waveVars, flowVars, lineVars, batchVars>>

EndOfInput ==
    /\ ppc = "read"
    /\ ppc' = NextStep(ppc)
    /\ UNCHANGED <<logs, built, merged, altDelay>>
    /\ UNCHANGED <<waveVars, flowVars, lineVars, batchVars>>

RunPmmExtractor ==
    /\ ppc = "extract1"
    /\ built' = [built EXCEPT ![1] = PmmMain(logs[1])]
    /\ ppc' = NextStep(ppc)
    /\ UNCHANGED <<logs, merged, altDelay>>
    /\ UNCHANGED <<waveVars, flowVars, lineVars, batchVars>>

RunPplmagExtractor(f) ==
    /\ f \in {2, 3}
    /\ ppc = IF f = 2 THEN "extract2" ELSE "extract3"
    /\ built' = [built EXCEPT ![f] = PplmagMain(logs[f])]
    /\ ppc' = NextStep(ppc)
    /\ UNCHANGED <<logs, merged, altDelay>>
    /\ UNCHANGED <<waveVars, flowVars, lineVars, batchVars>>

RunMerge(j) ==
    /\ ppc = j
    /\ merged' = [merged EXCEPT ![j] = MergeAndSort(MergeInputs(j))]
    /\ ppc' = NextStep(ppc)
    /\ UNCHANGED <<logs, built, altDelay>>
    /\ UNCHANGED <<waveVars, flowVars, lineVars, batchVars>>

\* The run on the same three files as "ALL", their delayMs values changed.
RunMergeAlt(d) ==
    /\ ppc = "ALT"
    /\ altDelay' = d
    /\ merged' = [merged EXCEPT !["ALT"] = MergeAndSort(WithDelay(MergeInputs("ALL"), d))]
    /\ ppc' = NextStep(ppc)
    /\ UNCHANGED <<logs, built>>
    /\ UNCHANGED <<waveVars, flowVars, lineVars, batchVars>>

PipeNext ==
    \/ \E f \in Sources : \E e \in ExtractedEvents(f) : ReadLine(f, e)
    \/ EndOfInput
    \/ RunPmmExtractor
    \/ \E f \in {2, 3} : RunPplmagExtractor(f)
    \/ \E j \in MergeJobs : RunMerge(j)
    \/ \E d \in AltDelays : RunMergeAlt(d)

SpecPipeline == PipeInit /\ [][PipeNext]_vars

(***************************************************************************)
(* Properties of the pipeline.                                             *)
(***************************************************************************)
Sorted(s) == \A i \in 1..(Len(s) - 1) : TsKey(s[i]) <= TsKey(s[i + 1])

\* The userIds present in a stream (None is no userId).
UsersOf(s) == { s[i].userId : i \in 1..Len(s) } \ {NoUser}

MarkedOf(s, u) == { i \in 1..Len(s) : s[i].userId = u /\ s[i].isLastReq = 1 }

LastMarked(s) ==
    \A u \in UsersOf(s) :
        /\ Cardinality(MarkedOf(s, u)) = 1
        /\ \A i \in MarkedOf(s, u) :
               \A k \in 1..Len(s) : s[k].userId = u => s[k].ts <= s[i].ts

DelayRule(s) ==
    /\ \A i \in 1..Len(s) : s[i].delayMs >= 0
    /\ \A i \in 1..(Len(s) - 1) :
           s[i].delayMs = Max(0, TsKey(s[i + 1]) - TsKey(s[i]))
    /\ Len(s) > 0 => s[Len(s)].delayMs = 0

TsDelay(s) == [i \in 1..Len(s) |-> <<TsKey(s[i]), s[i].delayMs>>]

AllJobs == MergeJobs \cup {"ALT"}

\* C1 (as claimed): the stream emitted by each extractor's sequence-building
\* stage is sorted ascending by ts.  Fails for log_traffic_extractor.main,
\* which emits the events in the order they were read.
C1_ExtractorStreamsSorted == \A f \in Sources : Sorted(built[f])

\* C2 (as claimed): in each extractor's emitted stream every userId present
\* has exactly one event with isLastReq = 1, and it is that user's
\* greatest-ts event.  Fails for log_traffic_extractor.main, which marks
\* the user's last event in read order.
C2_LastReqIsGreatestTs == \A f \in Sources : LastMarked(built[f])

\* C3: in every finalized stream (either extractor's, or a merge's)
\* delayMs[i] = max(0, ts[i+1] - ts[i]) for every event but the last, the
\* last delayMs is 0, and no delayMs is negative.
C3_DelayRule ==
    /\ \A f \in Sources : DelayRule(built[f])
    /\ \A j \in AllJobs : DelayRule(merged[j])

\* C3 witness: all runs made; the pmm stream has a negative raw gap (the
\* clamp acts), and a merged stream has a positive delay.
C3_Witness ==
    /\ ppc = "done"
    /\ \E i \in 1..(Len(built[1]) - 1) :
           built[1][i + 1].ts < built[1][i].ts /\ built[1][i].delayMs = 0
    /\ \E i \in 1..Len(merged["ALL"]) : merged["ALL"][i].delayMs > 0

\* C4: every merge output is sorted ascending by ts across its input
\* streams, and the run on the same files with other incoming delayMs
\* values writes the identical output.
C4_MergeSortedDelaysFromTs ==
    /\ \A j \in AllJobs : Sorted(merged[j])
    /\ ppc = "done" => merged["ALT"] = merged["ALL"]

\* C4 witness: the loaded records were out of order across the files, some
\* incoming delayMs differs from the one planted in the second run, and
\* the output has a positive delay.
C4_Witness ==
    /\ ppc = "done"
    /\ ~Sorted(LoadRecords(MergeInputs("ALL")))
    /\ \E f \in Sources : \E i \in 1..Len(built[f]) : built[f][i].delayMs # altDelay
    /\ \E i \in 1..Len(merged["ALT"]) : merged["ALT"][i].delayMs > 0

\* C5: merging A and B and then the result with C gives the same sequence
\* of (ts, delayMs) as merging B and C and then the result with A.
C5_MergeAssociative ==
    ppc = "done" => TsDelay(merged["AB_C"]) = TsDelay(merged["BC_A"])

\* C5 witness: three non-empty streams, A not first in time, and the two
\* results differ in the order of records with equal ts.
C5_Witness ==
    /\ ppc = "done"
    /\ \A f \in Sources : built[f] # <<>>
    /\ built[1][1].ts > built[3][1].ts
    /\ merged["AB_C"] # merged["BC_A"]

(***************************************************************************)
(* Python float arithmetic on latencies.  A float is held as its integer   *)
(* count of units of 2^-FracBits ms; every result of + and / is rounded to *)
(* MantissaBits significant bits, to nearest, ties to even.                *)
(***************************************************************************)
RECURSIVE Pow2(_)
Pow2(n) == IF n = 0 THEN 1 ELSE 2 * Pow2(n - 1)

\* The spacing of the floats around num/den: the least power of two q with
\* num/den < q * 2^MantissaBits.
RECURSIVE Quantum(_, _, _)
Quantum(num, den, q) ==
    IF num < den * q * Pow2(MantissaBits) THEN q ELSE Quantum(num, den, 2 * q)

\* The float nearest to the rational num/den (num >= 0, den > 0).
FloatRound(num, den) ==
    LET q  == Quantum(num, den, 1)
        d  == den * q
        m  == num \div d
        r  == num % d
        up == (2 * r > d) \/ (2 * r = d /\ m % 2 = 1)
    IN  (IF up THEN m + 1 ELSE m) * q

\* a + b
FAdd(a, b) == FloatRound(a + b, 1)

\* a / n
FDiv(a, n) == FloatRound(a, n)

\* sum(xs): from 0, left to right.
RECURSIVE FSum(_)
FSum(xs) ==
    IF xs = <<>> THEN 0
    ELSE FAdd(FSum(SubSeq(xs, 1, Len(xs) - 1)), xs[Len(xs)])

RECURSIVE SeqMin(_)
SeqMin(xs) ==
    IF Len(xs) = 1 THEN xs[1]
    ELSE LET m == SeqMin(Tail(xs)) IN IF xs[1] <= m THEN xs[1] ELSE m

RECURSIVE SeqMax(_)
SeqMax(xs) ==
    IF Len(xs) = 1 THEN xs[1]
    ELSE LET m == SeqMax(Tail(xs)) IN IF xs[1] >= m THEN xs[1] ELSE m

(***************************************************************************)
(* APIFlow: one session.  The server's behaviour towards a session is a    *)
(* script: which request (1 = date-picker, 2 = postPickerStatus,           *)
(* 3 = crossword, 3 + k = play post k) is the first one not answered well, *)
(* how it goes wrong, and the latency of each request.                     *)
(*   "transport"  session.request raises (connection error, timeout)       *)
(*   "http"       an error status (4xx, 5xx): raise_for_status raises      *)
(*                HTTPError.  The server is taken to answer with 2xx or    *)
(*                with an error status; redirects are followed by the      *)
(*                session.                                                 *)
(*   "app"        2xx, but no params block / token, or body status != 0    *)
(*   "crash"      2xx, but the JSON is not an object: .get raises          *)
(*                AttributeError                                           *)
(***************************************************************************)
NumRequests == 3 + NumPlays

FailKinds == {"transport", "http", "app", "crash"}

\* The exception a step raises on a bad response.
ExcOf(kind) ==
    CASE kind \in {"transport", "http"} -> "RequestException"
      [] kind = "app"                   -> "ValueError"
      [] OTHER                          -> "AttributeError"

OneMs == Pow2(FracBits)

\* (response kind, latency) of request r under the script.
ResponseKind(script, r) == IF script.failAt = r THEN script.kind ELSE "ok"

\* The outcome of a call: the exception raised ("none": it returned), the
\* exception's text, and the value returned.
Returned(v) == [exc |-> "none", msg |-> "", value |-> v]

Raised(e, m) == [exc |-> e, msg |-> m, value |-> <<>>]

\* str(e) of the exception a step raises.
ErrorText(step, kind) ==
    CASE kind = "transport" -> "ConnectionError"
      [] kind = "http"      -> "HTTPError"
      [] kind = "crash"     -> "'list' object has no attribute 'get'"
      [] step = 1           -> "no rawsps in response"
      [] step = 2           -> "postPickerStatus failed"
      [] step = 3           -> "couldn't find params script tag in response"
      [] OTHER              -> "plays API failed"

\* str(e) of the exception the script's failure raises.
ErrorTextOf(script) ==
    IF script.failAt > 3 /\ script.kind = "app"
    THEN "plays API failed at iteration " \o ToString(script.failAt - 3)
    ELSE ErrorText(IF script.failAt > 3 THEN 4 ELSE script.failAt, script.kind)

step1_date_picker(script) ==
    LET k == ResponseKind(script, 1)
    IN  IF k # "ok" THEN Raised(ExcOf(k), ErrorText(1, k))
        ELSE Returned([status_code |-> 200, uid |-> "uid",
                       latency_ms |-> script.lat])

step2_post_picker_status(script) ==
    LET k == ResponseKind(script, 2)
    IN  IF k # "ok" THEN Raised(ExcOf(k), ErrorText(2, k))
        ELSE Returned([status_code |-> 200, latency_ms |-> script.lat])

step3_load_crossword(script) ==
    LET k == ResponseKind(script, 3)
    IN  IF k # "ok" THEN Raised(ExcOf(k), ErrorText(3, k))
        ELSE Returned([status_code |-> 200, puzzle_id |-> "1461ef6d",
                       latency_ms |-> script.lat])

\* Mutant of PlayState: the last post is sent as one in progress.
PlayState_NeverCompleted(it) == IF it = 1 THEN 1 ELSE 2

\* play_state of loop index i = 0..9 (here it = i + 1).
PlayState(it) == IF it = 1 THEN 1 ELSE IF it = NumPlays THEN 4 ELSE 2

\* Mutant of PlayPost: the status field of the response body is not looked
\* at.
PlayPost_StatusIgnored(script, it) ==
    LET k == ResponseKind(script, 3 + it)
    IN  IF k \notin {"ok", "app"}
        THEN Raised(ExcOf(k), ErrorText(4, k))
        ELSE Returned([iteration  |-> it,
                       play_state |-> PlayState(it),
                       latency_ms |-> script.lat])

\* One pass of the loop after the payload is built: the request, the checks
\* of the response, and the entry appended on success.
PlayPost(script, it) ==
    LET k == ResponseKind(script, 3 + it)
    IN  IF k # "ok"
        THEN Raised(ExcOf(k),
                    IF k = "app"
                    THEN "plays API failed at iteration " \o ToString(it)
                    ELSE ErrorText(4, k))
        ELSE Returned([iteration  |-> it,
                       play_state |-> PlayState(it),
                       latency_ms |-> script.lat])

\* The loop of step4_post_plays from iteration `it` on.
RECURSIVE PlayLoop(_, _, _)
PlayLoop(script, it, results) ==
    IF it > NumPlays
    THEN Returned([iterations |-> results, success |-> TRUE])
    ELSE LET o == PlayPost(script, it)
         IN  IF o.exc # "none"
             THEN o
             ELSE PlayLoop(script, it + 1, Append(results, o.value))

step4_post_plays(script) == PlayLoop(script, 1, <<>>)

\* The except clauses of run_sequential_flow.
FlowCatches(exc) == exc \in {"RequestException", "ValueError"}

\* Mutant of FlowExcept: the handler swallows the exception and marks the
\* result good.
FlowExcept_Swallowed(results, o) ==
    IF FlowCatches(o.exc)
    THEN Returned(results @@ [success |-> TRUE])
    ELSE Raised(o.exc, o.msg)

\* Mutant of FlowExcept: the handler marks the result failed and leaves the
\* error out.
FlowExcept_NoError(results, o) ==
    IF FlowCatches(o.exc)
    THEN Returned(results @@ [success |-> FALSE])
    ELSE Raised(o.exc, o.msg)

\* What run_sequential_flow does with an exception raised after `results`
\* was filled so far.
FlowExcept(results, o) ==
    IF FlowCatches(o.exc)
    THEN Returned(results @@ [success |-> FALSE, error |-> o.msg])
    ELSE Raised(o.exc, o.msg)

run_sequential_flow(script) ==
    LET o1 == step1_date_picker(script)
        r1 == [step1 |-> o1.value]
        o2 == step2_post_picker_status(script)
        r2 == r1 @@ [step2 |-> o2.value]
        o3 == step3_load_crossword(script)
        r3 == r2 @@ [step3 |-> o3.value]
        o4 == step4_post_plays(script)
        r4 == r3 @@ [step4 |-> o4.value]
    IN  IF o1.exc # "none" THEN FlowExcept(<<>>, o1)
        ELSE IF o2.exc # "none" THEN FlowExcept(r1, o2)
        ELSE IF o3.exc # "none" THEN FlowExcept(r2, o3)
        ELSE IF o4.exc # "none" THEN FlowExcept(r3, o4)
        ELSE Returned(r4 @@ [success |-> TRUE])

run_single_thread(script) == run_sequential_flow(script)

(***************************************************************************)
(* run_wave_execution: the scheduler thread and the wave's worker pool.    *)
(***************************************************************************)
\* The server behaviours a session of a wave run may meet: all answered
\* well (every request in 1 ms, or in 2 ms), play post 5 answered with a
\* non-zero status, postPickerStatus answered with a JSON list.
WaveScripts ==
    { [failAt |-> 0, kind |-> "ok",    lat |-> OneMs],
      [failAt |-> 0, kind |-> "ok",    lat |-> 2 * OneMs],
      [failAt |-> 8, kind |-> "app",   lat |-> OneMs],
      [failAt |-> 2, kind |-> "crash", lat |-> OneMs] }

Idle == [state |-> "idle", outcome |-> Returned(<<>>)]

\* Mutant of Running: the submitted future stays pending, no worker of the
\* pool picks it up.
Running_Pending == [state |-> "pending", outcome |-> Returned(<<>>)]

\* A future whose session runs on a worker of the pool.
Running == [state |-> "running", outcome |-> Returned(<<>>)]

Done(o) == [state |-> "done", outcome |-> o]

\* Mutant of MoreWaves: the loop stops one wave early.
MoreWaves_OneShort == wave_num < duration - 1

\* `for wave_num in range(duration)`
MoreWaves == wave_num < duration

\* Mutant of CollectorCatches: only the exceptions the flow itself handles.
CollectorCatches_Narrow(exc) == exc \in {"RequestException", "ValueError"}

\* `except Exception` around future.result(): every exception a session can
\* raise is an Exception.
CollectorCatches(exc) == TRUE

\* Mutant of WaveJoined: the block is left after the first yielded future.
WaveJoined_First == yielded # {}

\* The with-block is left only when as_completed has yielded every future
\* (and shutdown(wait=True) has joined the workers).
WaveJoined == yielded = 1..rps

\* Mutant of IsSuccess: every entry that holds a result counts.
IsSuccess_HasResult(r) == "result" \in DOMAIN r

\* r.get('result', {}).get('success')
IsSuccess(r) == Get(Get(r, "result", <<>>), "success", FALSE)

Successful(results) == SelectSeq(results, IsSuccess)

LatencyOf(step) == Get(step, "latency_ms", 0)

IterationLatencies(res) ==
    LET its == Get(Get(res, "step4", <<>>), "iterations", <<>>)
    IN  [k \in 1..Len(its) |-> LatencyOf(its[k])]

\* Mutant of TotalLatency: the play posts are left out.
TotalLatency_NoPlays(res) ==
    FAdd(FAdd(LatencyOf(Get(res, "step1", <<>>)),
              LatencyOf(Get(res, "step2", <<>>))),
         LatencyOf(Get(res, "step3", <<>>)))

\* step1 + step2 + step3 + sum(iterations), evaluated left to right.
TotalLatency(res) ==
    FAdd(FAdd(FAdd(LatencyOf(Get(res, "step1", <<>>)),
                   LatencyOf(Get(res, "step2", <<>>))),
              LatencyOf(Get(res, "step3", <<>>))),
         FSum(IterationLatencies(res)))

WaveLatencies(successful) ==
    [k \in 1..Len(successful) |-> TotalLatency(successful[k].result)]

\* Mutant of WaveMin: the first latency instead of the least.
WaveMin_First(latencies) == latencies[1]

WaveMin(latencies) == SeqMin(latencies)

WaveMax(latencies) == SeqMax(latencies)

WaveAvg(latencies) == FDiv(FSum(latencies), Len(latencies))

\* The wave_stats dict (duration_ms, a wall-clock reading, is left out).
WaveStats(wn, results) ==
    LET successful == Successful(results)
        latencies  == WaveLatencies(successful)
        stats == [wave_number |-> wn + 1,
                  threads     |-> Len(results),
                  success     |-> Len(successful),
                  failed      |-> Len(results) - Len(successful),
                  latencies   |-> latencies]
    IN  IF latencies # <<>>
        THEN stats @@ [min |-> WaveMin(latencies),
                       max |-> WaveMax(latencies),
                       avg |-> WaveAvg(latencies)]
        ELSE stats

WaveInit ==
    /\ rps \in 1..MaxRps
    /\ duration \in 0..MaxDuration
    /\ rps * duration <= MaxSessions
    /\ wave_num = 0
    /\ pc = "loop"
    /\ nsub = 0
    /\ fut = [i \in 1..rps |-> Idle]
    /\ yielded = {}
    /\ wave_results = <<>>
    /\ waves = <<>>
    /\ all_results = <<>>
    /\ elapsed = 0
    /\ sleep_time = 0
    /\ active = {}
    /\ launches = <<>>
    /\ ran = <<>>
    /\ slept = 0
    /\ logs = [f \in Sources |-> <<>>]
    /\ built = [f \in Sources |-> <<>>]
    /\ merged = [j \in AllJobs |-> <<>>]
    /\ altDelay = 0
    /\ ppc = "done"
    /\ NoFlow
    /\ NoLine
    /\ NoBatch

\* Mutant of FreshWaveResults: the collection is carried over from the
\* wave before.
FreshWaveResults_Carried == wave_results

\* `wave_results = []` at the top of the loop body.
FreshWaveResults == <<>>

\* Top of the loop body: wave_start = perf_counter(), wave_results = [], a
\* new executor.
StartWave ==
    /\ pc = "loop"
    /\ MoreWaves
    /\ elapsed' = 0
    /\ sleep_time' = 0
    /\ slept' = 0
    /\ wave_results' = FreshWaveResults
    /\ fut' = [i \in 1..rps |-> Idle]
    /\ nsub' = 0
    /\ yielded' = {}
    /\ launches' = Append(launches, 0)
    /\ ran' = Append(ran, EmptyBag)
    /\ pc' = "submit"
    /\ UNCHANGED <<rps, duration, wave_num, waves, all_results, active>>
    /\ UNCHANGED <<pipeVars, flowVars, lineVars, batchVars>>

\* Mutant of Submissions: one session more than the pool has workers.
Submissions_OneMore == rps + 1

\* `for _ in range(rps)`: the sessions submitted to the wave's executor.
Submissions == rps

\* One executor.submit(run_single_thread, ...) of the list comprehension;
\* the pool has max_workers = rps, so the session starts on its own worker.
Submit ==
    /\ pc = "submit"
    /\ nsub < Submissions
    /\ fut' = [fut EXCEPT ![nsub + 1] = Running]
    /\ nsub' = nsub + 1
    /\ active' = active \cup {<<wave_num + 1, nsub + 1>>}
    /\ launches' = [launches EXCEPT ![Len(launches)] = @ + 1]
    /\ pc' = IF nsub + 1 = Submissions THEN "collect" ELSE "submit"
    /\ UNCHANGED <<rps, duration, wave_num, yielded, wave_results, waves, all_results,
                   elapsed, sleep_time, ran, slept>>
    /\ UNCHANGED <<pipeVars, flowVars, lineVars, batchVars>>

\* A worker: run_single_thread runs to its end against its script.
SessionFinish(i, script) ==
    /\ fut[i].state = "running"
    /\ fut' = [fut EXCEPT ![i] = Done(run_single_thread(script))]
    /\ active' = active \ {<<wave_num + 1, i>>}
    /\ ran' = [ran EXCEPT ![wave_num + 1] = @ (+) SetToBag({run_single_thread(script)})]
    /\ UNCHANGED <<rps, duration, wave_num, pc, nsub, yielded, wave_results,
                   waves, all_results, launches, elapsed, sleep_time, slept>>
    /\ UNCHANGED <<pipeVars, flowVars, lineVars, batchVars>>

\* Mutant of NotYetYielded: as_completed may yield a future again.
NotYetYielded_Always(i) == TRUE

\* as_completed yields each future once.
NotYetYielded(i) == i \notin yielded

\* One pass of `for i, future in enumerate(as_completed(futures))`.
Collect(i) ==
    /\ pc = "collect"
    /\ NotYetYielded(i)
    /\ fut[i].state = "done"
    /\ yielded' = yielded \cup {i}
    /\ LET o     == fut[i].outcome
           entry == [wave |-> wave_num + 1, thread |-> Cardinality(yielded)]
       IN  IF o.exc = "none"
           THEN /\ wave_results' = Append(wave_results, entry @@ [result |-> o.value])
                /\ pc' = pc
           ELSE IF CollectorCatches(o.exc)
           THEN /\ wave_results' = Append(wave_results, entry @@ [error |-> o.msg])
                /\ pc' = pc
           ELSE /\ wave_results' = wave_results
                /\ pc' = "aborted"
    /\ UNCHANGED <<rps, duration, wave_num, nsub, fut, waves, all_results,
                   active, launches, elapsed, sleep_time, ran, slept>>
    /\ UNCHANGED <<pipeVars, flowVars, lineVars, batchVars>>

\* After the with-block: the wave's statistics, waves.append, all_results.extend.
FinishWave ==
    /\ pc = "collect"
    /\ WaveJoined
    /\ waves' = Append(waves, WaveStats(wave_num, wave_results))
    /\ all_results' = all_results \o wave_results
    /\ IF wave_num < duration - 1
       THEN pc' = "pace" /\ wave_num' = wave_num
       ELSE pc' = "loop" /\ wave_num' = wave_num + 1
    /\ UNCHANGED <<rps, duration, nsub, fut, yielded, wave_results, active, launches,
                   elapsed, sleep_time, ran, slept>>
    /\ UNCHANGED <<pipeVars, flowVars, lineVars, batchVars>>

\* 1.0 s in ticks.
Second == TicksPerSecond

\* Mutant of SleepTime: nothing is left to sleep.
SleepTime_Zero(e) == 0

\* sleep_time = max(0, 1.0 - elapsed)
SleepTime(e) == Max(0, Second - e)

\* Inside `if wave_num < duration - 1`: elapsed is read as e ticks and
\* sleep_time > 0: time.sleep(sleep_time) returns `late` ticks after the
\* time asked for.
SleepRemainder(e, late) ==
    /\ pc = "pace"
    /\ SleepTime(e) > 0
    /\ elapsed' = e
    /\ sleep_time' = SleepTime(e)
    /\ slept' = SleepTime(e) + late
    /\ pc' = "loop"
    /\ wave_num' = wave_num + 1
    /\ UNCHANGED <<rps, duration, nsub, fut, yielded, wave_results, waves,
                   all_results, active, launches, ran>>
    /\ UNCHANGED <<pipeVars, flowVars, lineVars, batchVars>>

\* Inside `if wave_num < duration - 1`: elapsed is read as e ticks and
\* sleep_time is 0: no sleep.
NoSleep(e) ==
    /\ pc = "pace"
    /\ ~(SleepTime(e) > 0)
    /\ elapsed' = e
    /\ sleep_time' = SleepTime(e)
    /\ pc' = "loop"
    /\ wave_num' = wave_num + 1
    /\ UNCHANGED <<rps, duration, nsub, fut, yielded, wave_results, waves,
                   all_results, active, launches, ran, slept>>
    /\ UNCHANGED <<pipeVars, flowVars, lineVars, batchVars>>

\* The loop is exhausted: run_wave_execution returns its dict.
Return ==
    /\ pc = "loop"
    /\ ~MoreWaves
    /\ pc' = "returned"
    /\ UNCHANGED <<rps, duration, wave_num, nsub, fut, yielded, wave_results,
                   waves, all_results, active, launches, elapsed, sleep_time,
                   ran, slept>>
    /\ UNCHANGED <<pipeVars, flowVars, lineVars, batchVars>>

Next ==
    \/ StartWave
    \/ Submit
    \/ \E i \in 1..rps : \E script \in WaveScripts : SessionFinish(i, script)
    \/ \E i \in 1..rps : Collect(i)
    \/ FinishWave
    \/ \E e \in 0..MaxElapsed : \E late \in 0..MaxOversleep : SleepRemainder(e, late)
    \/ \E e \in 0..MaxElapsed : NoSleep(e)
    \/ Return

Spec == WaveInit /\ [][Next]_vars

(***************************************************************************)
(* Properties of the wave scheduler.                                       *)
(***************************************************************************)
RECURSIVE SumSeq(_)
SumSeq(xs) == IF xs = <<>> THEN 0 ELSE Head(xs) + SumSeq(Tail(xs))

InWave(entries, w) == SelectSeq(entries, LAMBDA e : e.wave = w)

\* The run's entries of wave w, in collection order.
EntriesOf(w) == InWave(all_results, w)

\* A failure entry: a session that crashed (the entry holds an error), or a
\* flow that failed (its result holds success = False and an error).
CrashEntry(e) == "error" \in DOMAIN e /\ "result" \notin DOMAIN e

FailedEntry(e) ==
    /\ "result" \in DOMAIN e
    /\ "success" \in DOMAIN e.result /\ e.result.success = FALSE
    /\ "error" \in DOMAIN e.result

\* A session all of whose four steps succeeded, the ten play posts included.
AllFourSteps(e) ==
    /\ "result" \in DOMAIN e
    /\ {"step1", "step2", "step3", "step4"} \subseteq DOMAIN e.result
    /\ Len(e.result.step4.iterations) = NumPlays

CountOf(entries, P(_)) == Cardinality({ k \in 1..Len(entries) : P(entries[k]) })

FailedOutcome(o) == o.exc # "none" \/ ~Get(o.value, "success", FALSE)

\* C6: run_wave_execution runs exactly `duration` waves and launches exactly
\* `rps` sessions in each, rps * duration in the run, whatever the outcomes
\* of the sessions and the pace of the waves.
C6_WavesAndLaunches ==
    /\ \A w \in 1..Len(launches) : launches[w] <= rps
    /\ \A w \in 1..Len(waves) : launches[w] = rps
    /\ pc = "returned" =>
          /\ Len(waves) = duration
          /\ Len(launches) = duration
          /\ SumSeq(launches) = rps * duration

\* C6 witness: a returned run of two waves of three sessions whose first
\* wave held a crashed and a failed session.
C6_Witness ==
    /\ pc = "returned" /\ rps = 3 /\ duration = 2
    /\ launches = <<3, 3>>
    /\ waves[1].failed >= 2
    /\ CountOf(EntriesOf(1), CrashEntry) >= 1

\* C7: waves are not pipelined: whenever a session is launched and not yet
\* terminal, it belongs to the wave after the last wave whose statistics
\* are in the run result; so no session of wave N+1 is launched before
\* every session of wave N is terminal and wave N's statistics are appended.
C7_WavesNotPipelined ==
    \A s \in active : s[1] = Len(waves) + 1

\* C7 witness: a session of the second wave is executing, after a first
\* wave of three sessions.
C7_Witness ==
    /\ rps = 3
    /\ Len(waves) = 1
    /\ <<2, 1>> \in active

\* C8: a failing or crashing session never aborts its wave or the run: the
\* scheduler is never left by an exception, a joined wave holds one entry
\* per launched session with one failure entry (carrying an error string)
\* per session that failed or crashed, every wave's statistics cover all
\* rps sessions, and the run returns with all `duration` waves.
C8_FailuresContained ==
    /\ pc # "aborted"
    /\ (pc = "collect" /\ WaveJoined) =>
          /\ Len(wave_results) = rps
          /\ CountOf(wave_results, CrashEntry)
               = Cardinality({ i \in 1..rps : fut[i].outcome.exc # "none" })
          /\ CountOf(wave_results, FailedEntry)
               = Cardinality({ i \in 1..rps :
                                 /\ fut[i].outcome.exc = "none"
                                 /\ FailedOutcome(fut[i].outcome) })
    /\ \A k \in 1..Len(all_results) :
          \/ CrashEntry(all_results[k]) /\ all_results[k].error # ""
          \/ FailedEntry(all_results[k]) /\ all_results[k].result.error # ""
          \/ AllFourSteps(all_results[k]) /\ all_results[k].result.success = TRUE
    /\ \A w \in 1..Len(waves) : waves[w].threads = rps
    /\ pc = "returned" =>
          /\ Len(waves) = duration
          /\ Len(all_results) = rps * duration

\* C8 witness: a returned run whose first wave held a crashed session, a
\* failed one and a successful one, and whose second wave ran and succeeded.
C8_Witness ==
    /\ pc = "returned" /\ duration = 2 /\ rps = 3
    /\ CountOf(EntriesOf(1), CrashEntry) = 1
    /\ CountOf(EntriesOf(1), FailedEntry) = 1
    /\ CountOf(EntriesOf(1), AllFourSteps) = 1
    /\ waves[2].success = 3

\* C9: in every wave result, success counts exactly the sessions all of
\* whose four steps succeeded (all ten play posts included), every other
\* launched session is counted in failed, and success + failed = threads = rps.
C9_SuccessCounts ==
    \A w \in 1..Len(waves) :
        /\ waves[w].threads = rps
        /\ Len(EntriesOf(w)) = rps
        /\ waves[w].success = CountOf(EntriesOf(w), AllFourSteps)
        /\ waves[w].failed = rps - CountOf(EntriesOf(w), AllFourSteps)
        /\ waves[w].success + waves[w].failed = waves[w].threads

\* C9 witness: a wave with a success, a session that failed in PLAY after
\* three good steps, and a crashed session.
C9_Witness ==
    \E w \in 1..Len(waves) :
        /\ waves[w].success = 1 /\ waves[w].failed = 2
        /\ \E k \in 1..rps :
              /\ FailedEntry(EntriesOf(w)[k])
              /\ "step3" \in DOMAIN EntriesOf(w)[k].result
        /\ CountOf(EntriesOf(w), CrashEntry) = 1

StatsKeys == {"min", "max", "avg"}

\* The total latencies of the successful sessions of wave w.
SuccessTotals(w) ==
    LET es == SelectSeq(EntriesOf(w), AllFourSteps)
    IN  [k \in 1..Len(es) |-> TotalLatency(es[k].result)]

\* min, max, avg are present iff a session succeeded, and min and max are
\* the least and the greatest total latency of the successful sessions.
StatsOverSuccesses(w) ==
    LET st     == waves[w]
        totals == SuccessTotals(w)
    IN  /\ IF st.success >= 1 THEN StatsKeys \subseteq DOMAIN st
                              ELSE StatsKeys \cap DOMAIN st = {}
        /\ st.latencies = totals
        /\ st.success >= 1 =>
              /\ st.min = SeqMin(totals)
              /\ st.max = SeqMax(totals)

\* C10 (as claimed): a wave result carries min, max and avg iff a session of
\* the wave succeeded; they are computed over the successful sessions'
\* total latencies only, and min <= avg <= max.  The last part fails: avg
\* is the rounded float quotient of the rounded float sum.
C10_StatsWithinMinMax ==
    \A w \in 1..Len(waves) :
        /\ StatsOverSuccesses(w)
        /\ waves[w].success >= 1 =>
              /\ waves[w].min <= waves[w].avg
              /\ waves[w].avg <= waves[w].max

\* C10 (amended): min, max and avg are present iff a session succeeded and
\* are computed over the successful sessions' total latencies only;
\* min <= max; min <= avg <= max when at most two sessions succeeded, and
\* for n successes avg is within a relative rounding error of
\* 2n * 2^-MantissaBits of [min, max].
C10_StatsUpToRounding ==
    \A w \in 1..Len(waves) :
        /\ StatsOverSuccesses(w)
        /\ waves[w].success >= 1 =>
              LET st == waves[w]
                  n  == st.success
                  p  == Pow2(MantissaBits)
              IN  /\ st.min <= st.max
                  /\ n <= 2 => (st.min <= st.avg /\ st.avg <= st.max)
                  /\ st.avg * p >= st.min * (p - 2 * n)
                  /\ st.avg * p <= st.max * (p + 2 * n)

\* C10 witness: one wave without a success (no min, max, avg), and one with
\* two successes of different total latency beside a failed session.
C10_Witness ==
    /\ \E w \in 1..Len(waves) :
          waves[w].success = 0 /\ StatsKeys \cap DOMAIN waves[w] = {}
    /\ \E w \in 1..Len(waves) :
          /\ waves[w].success = 2 /\ waves[w].failed = 1
          /\ waves[w].min < waves[w].max
          /\ CountOf(EntriesOf(w), FailedEntry) = 1

\* What an outcome leaves in a result entry: the flow's result, or the text
\* of the exception.
Content(o) == IF o.exc = "none" THEN [result |-> o.value] ELSE [error |-> o.msg]

\* An entry without its wave and thread numbers.
EntryContent(e) == [k \in DOMAIN e \ {"wave", "thread"} |-> e[k]]

BagOfSeq(xs) ==
    [x \in { xs[k] : k \in 1..Len(xs) } |->
        Cardinality({ k \in 1..Len(xs) : xs[k] = x })]

SuccessfulOutcome(o) == ~FailedOutcome(o)

\* The part of a bag of outcomes that succeeded.
SuccessesIn(own) ==
    [o \in { x \in BagToSet(own) : SuccessfulOutcome(x) } |-> own[o]]

\* C11: the statistics of wave N are computed only from the sessions
\* launched in wave N: the entries counted for wave N are exactly the
\* outcomes of the sessions launched in it, threads, success, failed,
\* latencies, min, max and avg are those of these entries alone, and no
\* other wave's result contributes.
C11_WaveStatsFromOwnWave ==
    \A w \in 1..Len(waves) :
        LET entries == EntriesOf(w)
            own     == ran[w]
        IN  /\ BagOfSeq([k \in 1..Len(entries) |-> EntryContent(entries[k])])
                  = BagOfAll(Content, own)
            /\ waves[w] = WaveStats(w - 1, entries)
            /\ waves[w].threads = BagCardinality(own)
            /\ waves[w].success = BagCardinality(SuccessesIn(own))
            /\ waves[w].failed = BagCardinality(own) - BagCardinality(SuccessesIn(own))
            /\ Len(waves[w].latencies) = BagCardinality(SuccessesIn(own))

\* C11 witness: two waves of three sessions; the first held failures, the
\* second none, and their latencies differ.
C11_Witness ==
    /\ rps = 3 /\ Len(waves) = 2
    /\ waves[1].failed = 2 /\ waves[1].success = 1
    /\ waves[2].failed = 0 /\ waves[2].success = 3
    /\ waves[1].latencies # <<waves[2].latencies[1]>>

\* C20: after a wave that is not the last the scheduler sleeps
\* max(0, 1 s - time since the wave's start): the next wave never starts
\* less than 1 s after the wave started, a wave that took 1 s or more is
\* followed by the next with no sleep, no wave is skipped or doubled, and
\* no sleep follows the last wave.
C20_Pacing ==
    /\ (pc = "loop" /\ wave_num >= 1 /\ MoreWaves) =>
          /\ sleep_time = Max(0, Second - elapsed)
          /\ slept >= sleep_time
          /\ elapsed + slept >= Second
          /\ elapsed >= Second => slept = 0
    /\ (pc \in {"loop", "returned"} /\ ~MoreWaves) => (slept = 0 /\ sleep_time = 0)
    /\ pc \in {"submit", "collect", "pace"} => slept = 0
    /\ \A w \in 1..Len(waves) : waves[w].wave_number = w /\ launches[w] = rps
    /\ Len(launches) \in {Len(waves), Len(waves) + 1}
    /\ pc \in {"loop", "returned"} => Len(waves) = wave_num
    /\ pc = "returned" => Len(waves) = duration

\* C20 witness: the second wave is about to start after a first wave that
\* took half a second and a sleep of the remaining half.
C20_Witness ==
    /\ pc = "loop" /\ wave_num = 1 /\ duration >= 2
    /\ elapsed < Second /\ elapsed > 0
    /\ slept = Second - elapsed

\* The entries of wave w that hold a result with success = True.
SuccessEntries(w) ==
    SelectSeq(EntriesOf(w),
              LAMBDA e : "result" \in DOMAIN e /\ Get(e.result, "success", FALSE))

\* C22: once a wave's statistics are in, its latency list has one entry per
\* successful session of the wave, in collection order, and the entry is
\* the float sum ((step1 + step2) + step3) + sum(iterations) of the
\* session's three step latencies and of exactly ten play-post latencies,
\* which lies within thirteen roundings of their exact sum.
C22_TotalLatencyIsSumOfSteps ==
    pc = "loop" =>
        \A w \in 1..Len(waves) :
            LET es == SuccessEntries(w)
            IN  /\ Len(waves[w].latencies) = Len(es)
                /\ Len(es) = BagCardinality(SuccessesIn(ran[w]))
                /\ \A k \in 1..Len(es) :
                      LET res   == es[k].result
                          its   == res.step4.iterations
                          plays == [i \in 1..Len(its) |-> its[i].latency_ms]
                          exact == res.step1.latency_ms + res.step2.latency_ms
                                     + res.step3.latency_ms + SumSeq(plays)
                          total == waves[w].latencies[k]
                      IN  /\ Len(its) = NumPlays
                          /\ total = FAdd(FAdd(FAdd(res.step1.latency_ms,
                                                    res.step2.latency_ms),
                                               res.step3.latency_ms),
                                          FSum(plays))
                          /\ (total - exact) * Pow2(MantissaBits) <= NumRequests * exact
                          /\ (exact - total) * Pow2(MantissaBits) <= NumRequests * exact

\* C22 witness: a wave of two successful sessions of different total
\* latency and a session that failed in PLAY after three good steps.
C22_Witness ==
    /\ pc = "loop"
    /\ \E w \in 1..Len(waves) :
          /\ Len(waves[w].latencies) = 2
          /\ waves[w].latencies[1] = NumRequests * OneMs
          /\ waves[w].latencies[2] = NumRequests * 2 * OneMs
          /\ \E k \in 1..rps :
                /\ FailedEntry(EntriesOf(w)[k])
                /\ "step3" \in DOMAIN EntriesOf(w)[k].result

\* A record without its delayMs.
Frame(r) == [k \in DOMAIN r \ {"delayMs"} |-> r[k]]

FramesOf(s) == BagOfSeq([i \in 1..Len(s) |-> Frame(s[i])])

\* The records of the input files, without their delayMs.
RECURSIVE FramesOfFiles(_)
FramesOfFiles(files) ==
    IF files = <<>> THEN EmptyBag
    ELSE FramesOf(Head(files)) (+) FramesOfFiles(Tail(files))

\* C27: merge_and_sort changes no field other than delayMs and recomputes
\* no last-request marker: the records it writes are the records it
\* loaded, one for one, each with the ts, endpoint, userId, method and
\* isLastReq (and the keys) it was loaded with.
C27_MergeChangesDelayOnly ==
    ppc = "done" =>
        \A j \in AllJobs :
            /\ FramesOf(merged[j]) = FramesOfFiles(MergeInputs(j))
            /\ \A i \in 1..Len(merged[j]) : "delayMs" \in DOMAIN merged[j][i]

\* C27 witness: a merge of a stream without and a stream with the method
\* field, which moved a record, changed a delayMs and kept a marker on a
\* record that is not its user's last in the merged stream.
C27_Witness ==
    /\ ppc = "done"
    /\ merged["AB"] # LoadRecords(MergeInputs("AB"))
    /\ \E i \in 1..Len(merged["AB"]) : "method" \in DOMAIN merged["AB"][i]
    /\ \E i \in 1..Len(merged["AB"]) : "method" \notin DOMAIN merged["AB"][i]
    /\ \E i \in 1..Len(built[2]) : \E k \in 1..Len(merged["AB"]) :
           /\ Frame(merged["AB"][k]) = Frame(built[2][i])
           /\ merged["AB"][k].delayMs # built[2][i].delayMs
    /\ \E i, k \in 1..Len(merged["AB"]) :
           /\ i < k
           /\ merged["AB"][i].userId = merged["AB"][k].userId
           /\ merged["AB"][i].isLastReq = 1

\* The outcomes of the futures as_completed has yielded so far.
YieldedOutcomes == BagOfSeq([k \in 1..Len(wave_results) |-> EntryContent(wave_results[k])])

\* The results and errors of the futures of S, as entries hold them.
OutcomesOf(S) ==
    [c \in { Content(fut[i].outcome) : i \in S } |->
        Cardinality({ i \in S : Content(fut[i].outcome) = c })]

\* A step of a worker: a session ends on its future.
WorkerStep == \E i \in 1..rps : fut[i].state = "running" /\ fut'[i].state = "done"

\* C28: the wave's result collection is written by the scheduler thread
\* only (a worker's step leaves it as it is; it changes by one appended
\* entry in the as_completed loop, or is replaced by a new empty list at
\* the top of a wave), and under every order of completions it holds one
\* entry per future yielded so far, with that future's result or error
\* and the entries numbered 0, 1, 2, ...: once the wave is joined, exactly
\* one entry per launched session.
C28_CollectedOncePerSession ==
    /\ [][ /\ WorkerStep => wave_results' = wave_results
           /\ wave_results' # wave_results =>
                \/ pc = "collect" /\ Len(wave_results') = Len(wave_results) + 1
                                  /\ SubSeq(wave_results', 1, Len(wave_results)) = wave_results
                \/ pc = "loop" /\ wave_results' = <<>> ]_vars
    /\ [](pc = "collect" =>
            /\ Len(wave_results) = Cardinality(yielded)
            /\ \A k \in 1..Len(wave_results) :
                  wave_results[k].thread = k - 1 /\ wave_results[k].wave = wave_num + 1
            /\ YieldedOutcomes = OutcomesOf(yielded)
            /\ WaveJoined => Len(wave_results) = launches[wave_num + 1])

\* C28 witness: a joined wave of three sessions that ended in another
\* order than they were submitted: the first entry collected is the crash
\* of the third session, the first session's result came last.
C28_Witness ==
    /\ pc = "collect" /\ rps = 3 /\ WaveJoined
    /\ Len(wave_results) = 3
    /\ CrashEntry(wave_results[1])
    /\ fut[3].outcome.exc # "none"
    /\ fut[1].outcome.exc = "none" /\ fut[2].outcome.exc = "none"
    /\ Content(fut[1].outcome) # Content(fut[2].outcome)
    /\ EntryContent(wave_results[3]) = Content(fut[1].outcome)

(***************************************************************************)
(* The wave scheduler under fair scheduling: the scheduler thread takes    *)
(* its next step whenever it has one (it blocks only in as_completed, for  *)
(* a future to be done, and in time.sleep, which returns), and a session   *)
(* that runs on a worker ends, because each of its at most thirteen        *)
(* requests returns or times out (timeout = self.config.timeout).          *)
(***************************************************************************)
\* The as_completed loop takes its next pass when a future is done.
CollectStep == \E i \in 1..rps : Collect(i)

\* time.sleep returns, or there is nothing to sleep.
PaceStep ==
    \/ \E e \in 0..MaxElapsed : \E late \in 0..MaxOversleep : SleepRemainder(e, late)
    \/ \E e \in 0..MaxElapsed : NoSleep(e)

SessionEnds(i) == i \in 1..rps /\ \E script \in WaveScripts : SessionFinish(i, script)

\* Weak fairness of FinishWave, with its enabling condition written out:
\* the step is possible exactly when the with-block can be left.
FinishWaveFair ==
    \/ []<>(~(pc = "collect" /\ WaveJoined))
    \/ []<><<FinishWave>>_vars

Fairness ==
    /\ WF_vars(StartWave)
    /\ WF_vars(Submit)
    /\ WF_vars(CollectStep)
    /\ FinishWaveFair
    /\ WF_vars(PaceStep)
    /\ WF_vars(Return)
    /\ \A i \in 1..MaxRps : WF_vars(SessionEnds(i))

\* The runs checked for termination: those of at most LiveMaxSessions
\* sessions in all.
LiveInit == WaveInit /\ rps * duration <= LiveMaxSessions

LiveSpec == LiveInit /\ [][Next]_vars /\ Fairness

\* C29: every launched session eventually is terminal (its future is done,
\* with the result of a flow that reached DONE or FAILED, or with the
\* exception that ended it), every wave that starts is eventually joined
\* and has its statistics appended, and run_wave_execution eventually
\* returns, with all its waves.
C29_EverythingTerminates ==
    /\ \A i \in 1..MaxRps : \A w \in 1..MaxDuration :
          (<<w, i>> \in active)
              ~> (i \in 1..rps /\ <<w, i>> \notin active /\ fut[i].state = "done")
    /\ \A w \in 1..MaxDuration :
          (Len(launches) >= w) ~> (Len(waves) >= w)
    /\ <>(pc = "returned" /\ Len(waves) = duration)

\* C29 (witness): a run of two waves of two sessions has returned, one of
\* its sessions having ended in an exception and one in a failed flow.
C29_Witness ==
    /\ pc = "returned"
    /\ rps = 2
    /\ duration = 2
    /\ Len(waves) = 2
    /\ Len(all_results) = 4
    /\ \E j \in 1..Len(all_results) : "error" \in DOMAIN all_results[j]
    /\ \E j \in 1..Len(all_results) :
          /\ "result" \in DOMAIN all_results[j]
          /\ ~all_results[j].result.success

\* C21: at every moment at most rps session flows are executing, each on
\* its own future of the current wave's executor, and all of them belong
\* to the wave under way; between waves and after the run none executes.
C21_AtMostRpsSameWave ==
    /\ Cardinality(active) <= rps
    /\ \A s \in active :
          /\ s[1] = wave_num + 1
          /\ s[2] \in 1..rps
          /\ fut[s[2]].state = "running"
    /\ pc \in {"loop", "pace", "returned"} => active = {}

\* C21 witness: all three sessions of the second wave are executing at once.
C21_Witness ==
    /\ rps = 3 /\ wave_num = 1
    /\ Cardinality(active) = 3

\* C19 (as claimed): in every stream written by merge_and_sort, isLastReq
\* is 1 for exactly one event per distinct userId, that user's greatest-ts
\* event, also when the userId occurs in more than one input stream.
\* Fails: merge_and_sort copies the isLastReq marks of its inputs.
C19_MergedLastReqPerUser == \A j \in AllJobs : LastMarked(merged[j])

\* What the marking of a record is made of.
MarkOf(r) == <<TsKey(r), r.userId, r.isLastReq>>

MarksOf(s) == BagOfSeq([i \in 1..Len(s) |-> MarkOf(s[i])])

\* The input files of merge run j in which userId u occurs.
InputsWith(j, u) ==
    { f \in 1..Len(MergeInputs(j)) : u \in UsersOf(MergeInputs(j)[f]) }

\* C19 (amended): merge_and_sort writes every record with the isLastReq it
\* was loaded with, so a merge of built streams marks, for each userId, one
\* event per input stream the userId occurs in: exactly one when it occurs
\* in one input stream only.
C19_MergedKeepsMarks ==
    ppc = "done" =>
        \A j \in AllJobs :
            /\ MarksOf(merged[j]) = MarksOf(LoadRecords(MergeInputs(j)))
            /\ j \in {"AB", "BC", "ALL", "ALT"} =>
                   \A u \in UsersOf(merged[j]) :
                       Cardinality(MarkedOf(merged[j], u))
                           = Cardinality(InputsWith(j, u))

\* C19 witness: a merge of two streams that share a userId, which has a
\* marked event from each of them and an unmarked one.
C19_Witness ==
    /\ ppc = "done"
    /\ \E u \in Users :
           /\ Cardinality(InputsWith("AB", u)) = 2
           /\ Cardinality(MarkedOf(merged["AB"], u)) = 2
           /\ \E i \in 1..Len(merged["AB"]) :
                  merged["AB"][i].userId = u /\ merged["AB"][i].isLastReq = 0

(***************************************************************************)
(* One session flow, request by request: run_sequential_flow of            *)
(* api_flow.py (the puzzle is picked from the picker's crosswords, the     *)
(* grid is the puzzle's) and of api_flow_v2.py (PUZZLE_ID and STATE_LEN    *)
(* are module constants).                                                  *)
(***************************************************************************)
FlowVersions == {"api_flow", "api_flow_v2"}

\* Python None as primaryState / secondaryState.
NoneState == <<"None">>

\* random.choice(string.ascii_lowercase)
Letters == {"a", "b"}

GridDims == 0..MaxDim

\* The puzzleDetails dicts the picker may offer to api_flow.
Puzzles ==
    { [puzzleId |-> "1461ef6d", gridWidth |-> w, gridHeight |-> h] :
        w \in GridDims, h \in GridDims }
    \cup { [puzzleId |-> "1461ef6d", gridWidth |-> 5, gridHeight |-> 37] }
    \cup { [puzzleId |-> "1461ef6d"] }

\* The puzzle the server may hold under PUZZLE_ID (api_flow_v2 never reads
\* its grid).
HardcodedPuzzles ==
    { [puzzleId |-> "1461ef6d", gridWidth |-> 5, gridHeight |-> 37],
      [puzzleId |-> "1461ef6d", gridWidth |-> MaxDim, gridHeight |-> MaxDim] }

\* The server's behaviours towards one session: every request answered
\* well; request r answered with a bad body or status field; some requests
\* answered with an HTTP error, a JSON list, or not at all.
FlowScripts ==
    { [failAt |-> 0, kind |-> "ok", lat |-> OneMs] }
    \cup { [failAt |-> r, kind |-> "app", lat |-> OneMs] : r \in 1..NumRequests }
    \cup { [failAt |-> r, kind |-> "http", lat |-> OneMs] : r \in {1, 8} }
    \cup { [failAt |-> r, kind |-> "crash", lat |-> OneMs] : r \in {2, 8} }
    \cup { [failAt |-> 3, kind |-> "transport", lat |-> OneMs] }

\* A request as make_request sends it (playState: the payload's, 0 if none).
Request(method, endpoint, playState) ==
    [method |-> method, endpoint |-> endpoint, playState |-> playState]

\* The cells on which the generators' random choices fall.
Window(length) == 1..(IF length < MaxPos THEN length ELSE MaxPos)

\* A grid state: the cells of DOMAIN f hold the letters f gives them, the
\* others are empty.
GridOf(length, f) ==
    [primary   |-> [k \in 1..length |-> IF k \in DOMAIN f THEN f[k] ELSE "#"],
     secondary |-> [k \in 1..length |-> IF k \in DOMAIN f THEN "1" ELSE "0"]]

\* _generate_state(length, fill_ratio): each cell is filled with a letter or
\* left empty.
generate_state(length) ==
    { GridOf(length, f) :
        f \in UNION { [F -> Letters] : F \in SUBSET Window(length) } }

\* Mutant of FlipCell: the fill flag is left as it was.
FlipCell_FlagKept(p, s, letter) ==
    IF p = "#" THEN <<letter, s>> ELSE <<"#", s>>

\* The body of _mutate_state's loop on one position.
FlipCell(p, s, letter) ==
    IF p = "#" THEN <<letter, "1">> ELSE <<"#", "0">>

\* _mutate_state with random.sample giving the positions of DOMAIN f and
\* random.choice giving f.
MutateAt(primary, secondary, f) ==
    [primary   |-> [k \in 1..Len(primary) |->
                      IF k \in DOMAIN f
                      THEN FlipCell(primary[k], secondary[k], f[k])[1]
                      ELSE primary[k]],
     secondary |-> [k \in 1..Len(secondary) |->
                      IF k \in DOMAIN f
                      THEN FlipCell(primary[k], secondary[k], f[k])[2]
                      ELSE secondary[k]]]

\* Mutant of MutationsOn: num_changes is drawn from 1..len(p).
MutationsOn_NoCap(primary, secondary, cells) ==
    { MutateAt(primary, secondary, f) :
        f \in UNION { [F -> Letters] :
                        F \in { G \in SUBSET cells :
                                  /\ Cardinality(G) >= 1
                                  /\ Cardinality(G) <= Len(primary) } } }

\* _mutate_state(primary, secondary), for len(p) >= 1, when random.sample
\* draws from `cells`: 1..min(5, len(p)) distinct positions are flipped.
MutationsOn(primary, secondary, cells) ==
    { MutateAt(primary, secondary, f) :
        f \in UNION { [F -> Letters] :
                        F \in { G \in SUBSET cells :
                                  /\ Cardinality(G) >= 1
                                  /\ Cardinality(G) <= MaxChanges
                                  /\ Cardinality(G) <= Len(primary) } } }

\* _mutate_state(primary, secondary) in a session: the positions drawn fall
\* on the first MaxPos cells.
mutate_state(primary, secondary) ==
    MutationsOn(primary, secondary, Window(Len(primary)))

\* _complete_state(length): every cell holds a letter.
complete_state(length) ==
    { [primary   |-> [k \in 1..length |-> IF k \in DOMAIN f THEN f[k] ELSE "a"],
       secondary |-> [k \in 1..length |-> "1"]] :
        f \in [Window(length) -> Letters] }

\* crosswords the picker offers (api_flow._get_crossword_puzzles)
CrosswordPuzzles == fcrosswords

\* self.context.get('selected_puzzle', {}): the crossword step 3 picked.
SelectedPuzzle == IF CrosswordPuzzles = <<>> THEN <<>> ELSE CrosswordPuzzles[1]

\* state_len of step4_post_plays.
StateLen ==
    IF fver = "api_flow"
    THEN Get(SelectedPuzzle, "gridWidth", DefaultDim)
           * Get(SelectedPuzzle, "gridHeight", DefaultDim)
    ELSE STATE_LEN

\* config.get_uid(): a uid of the pool, a random one or the configured one,
\* which is empty when --uid is given so.
Uids == {"k3x9", ""}

\* The loadToken the server's rawsps block may hold.
LoadTokens == {"tokA", "tokB"}

\* `not v` for a value of self.context.get: None or the empty string.
Missing(v) == v \in {"None", ""}

\* self.context.get(key)
Context(key) == Get(fcontext, key, "None")

\* The loadToken and the uid a request carries ("None": the request has no
\* such field).  Step 1 sends the uid as a query parameter.
Step1Params(uid) == [loadToken |-> "None", uid |-> uid]

\* The payload of postPickerStatus has the loadToken and no uid.
Step2Payload == [loadToken |-> Context("load_token"), uid |-> "None"]

\* The query of the puzzle load has uid and loadToken.
Step3Params == [loadToken |-> Context("load_token"), uid |-> Context("uid")]

\* The play the rawp block of a puzzle page decodes to, and the page's data
\* block (crossword_params) with and without a rawp.
SavedPlay == [playId |-> "p7", score |-> 30, timeOnPage |-> 900, timeTaken |-> 12]

CrosswordParams ==
    { [rawsps |-> "sps"], [rawsps |-> "sps", rawp |-> [json |-> SavedPlay]] }

\* json.loads(self.b64_decode(encoded))
b64_decode_json(encoded) == encoded.json

\* The end of step3_load_crossword: crossword_params is stored, and with a
\* rawp the play it decodes to and that play's playId.
StorePlay(context, crossword_params) ==
    LET c == [crossword_params |-> crossword_params] @@ context
    IN  IF "rawp" \in DOMAIN crossword_params
        THEN LET decoded_play == b64_decode_json(crossword_params.rawp)
             IN  [decoded_play |-> decoded_play,
                  play_id |-> Get(decoded_play, "playId", "None")] @@ c
        ELSE c

\* decoded_play.get(key, default) if decoded_play else default
PlayField(key, default) ==
    IF "decoded_play" \in DOMAIN fcontext /\ DOMAIN fcontext.decoded_play # {}
    THEN Get(fcontext.decoded_play, key, default)
    ELSE default

\* Mutant of PlayPayload: the userId is the configured default, not the
\* session's.
PlayPayload_DefaultUid ==
    [loadToken  |-> Context("load_token"),
     uid        |-> "vansh",
     playId     |-> Get(fcontext, "play_id", ""),
     score      |-> PlayField("score", 0),
     timeOnPage |-> PlayField("timeOnPage", 5000),
     timeTaken  |-> PlayField("timeTaken", 5)]

\* Mutant of PlayPayload: the playId is read without its default.
PlayPayload_NoPlayId ==
    [loadToken  |-> Context("load_token"),
     uid        |-> Context("uid"),
     playId     |-> Context("play_id"),
     score      |-> PlayField("score", 0),
     timeOnPage |-> PlayField("timeOnPage", 5000),
     timeTaken  |-> PlayField("timeTaken", 5)]

\* The payload of a play post has loadToken and userId, read from
\* self.context once, before the loop, and the playId, score, timeOnPage
\* and timeTaken of the play the page came with.
PlayPayload ==
    [loadToken  |-> Context("load_token"),
     uid        |-> Context("uid"),
     playId     |-> Get(fcontext, "play_id", ""),
     score      |-> PlayField("score", 0),
     timeOnPage |-> PlayField("timeOnPage", 5000),
     timeTaken  |-> PlayField("timeTaken", 5)]

\* Mutant of StepFailed: a failed step is taken for a good one.
StepFailed_Never(o) == FALSE

\* A step that raises leaves the try block.
StepFailed(o) == o.exc # "none"

FlowInit ==
    /\ fver \in FlowVersions
    /\ fscript \in FlowScripts
    /\ fcrosswords \in IF fver = "api_flow"
                       THEN { <<pz>> : pz \in Puzzles } \cup {<<>>}
                       ELSE { <<pz>> : pz \in HardcodedPuzzles }
    /\ fpc = "step1"
    /\ fit = 0
    /\ fresults = <<>>
    /\ fiters = <<>>
    /\ fprimary = <<>>
    /\ fsecondary = <<>>
    /\ fposted = [primaryState |-> NoneState, secondaryState |-> NoneState]
    /\ fsent = <<>>
    /\ fcontext = <<>>
    /\ fcarried = <<>>
    /\ fout = Returned(<<>>)
    /\ logs = [f \in Sources |-> <<>>]
    /\ built = [f \in Sources |-> <<>>]
    /\ merged = [j \in AllJobs |-> <<>>]
    /\ altDelay = 0
    /\ ppc = "done"
    /\ rps = 1 /\ duration = 0 /\ wave_num = 0 /\ pc = "returned" /\ nsub = 0
    /\ fut = <<>> /\ yielded = {} /\ wave_results = <<>> /\ waves = <<>>
    /\ all_results = <<>> /\ active = {} /\ launches = <<>>
    /\ elapsed = 0 /\ sleep_time = 0 /\ ran = <<>> /\ slept = 0
    /\ NoLine
    /\ NoBatch

\* An exception o leaves the try block of run_sequential_flow.
FlowFail(o) ==
    LET x == FlowExcept(fresults, o)
    IN  /\ fout' = x
        /\ fpc' = IF x.exc = "none" THEN "done" ELSE "raised"
        /\ fresults' = IF x.exc = "none" THEN x.value ELSE fresults

\* results['step1'] = self.step1_date_picker(): the uid is chosen and
\* stored before the request, the loadToken of the response after it.
FlowStep1 ==
    /\ fpc = "step1"
    /\ \E uid \in Uids : \E tok \in LoadTokens :
          /\ fsent' = Append(fsent, Request("GET", "date-picker", 0))
          /\ fcarried' = Append(fcarried, Step1Params(uid))
          /\ LET o == step1_date_picker(fscript)
             IN  IF StepFailed(o)
                 THEN FlowFail(o) /\ fcontext' = [uid |-> uid]
                 ELSE /\ fresults' = fresults @@ [step1 |-> [uid |-> uid] @@ o.value]
                      /\ fcontext' = [uid |-> uid, load_token |-> tok]
                      /\ fpc' = "step2"
                      /\ fout' = fout
    /\ UNCHANGED <<fver, fscript, fcrosswords, fit, fiters, fprimary, fsecondary, fposted>>
    /\ UNCHANGED <<pipeVars, waveVars, lineVars, batchVars>>

\* results['step2'] = self.step2_post_picker_status().  Its `raise
\* ValueError("need loadToken from step1")` is not taken in this flow: step
\* 1 has returned only with a token.
FlowStep2 ==
    /\ fpc = "step2"
    /\ ~Missing(Context("load_token"))
    /\ fsent' = Append(fsent, Request("POST", "postPickerStatus", 0))
    /\ fcarried' = Append(fcarried, Step2Payload)
    /\ UNCHANGED fcontext
    /\ LET o == step2_post_picker_status(fscript)
       IN  IF StepFailed(o) THEN FlowFail(o)
           ELSE /\ fresults' = fresults @@ [step2 |-> o.value]
                /\ fpc' = "step3"
                /\ fout' = fout
    /\ UNCHANGED <<fver, fscript, fcrosswords, fit, fiters, fprimary, fsecondary, fposted>>
    /\ UNCHANGED <<pipeVars, waveVars, lineVars, batchVars>>

\* step3_load_crossword when the context has no uid (or no token): it
\* raises before any request.
FlowStep3NoContext ==
    /\ fpc = "step3"
    /\ Missing(Context("load_token")) \/ Missing(Context("uid"))
    /\ FlowFail(Raised("ValueError", "need context from step1"))
    /\ UNCHANGED <<fver, fscript, fcrosswords, fit, fiters, fprimary, fsecondary,
                   fposted, fsent, fcontext, fcarried>>
    /\ UNCHANGED <<pipeVars, waveVars, lineVars, batchVars>>

\* api_flow.step3_load_crossword when the picker offers no crossword: it
\* raises before any request.
FlowStep3NoCrossword ==
    /\ fpc = "step3"
    /\ ~(Missing(Context("load_token")) \/ Missing(Context("uid")))
    /\ fver = "api_flow"
    /\ CrosswordPuzzles = <<>>
    /\ FlowFail(Raised("ValueError", "no crosswords found"))
    /\ UNCHANGED <<fver, fscript, fcrosswords, fit, fiters, fprimary, fsecondary,
                   fposted, fsent, fcontext, fcarried>>
    /\ UNCHANGED <<pipeVars, waveVars, lineVars, batchVars>>

\* results['step3'] = self.step3_load_crossword()
FlowStep3 ==
    /\ fpc = "step3"
    /\ ~(Missing(Context("load_token")) \/ Missing(Context("uid")))
    /\ fver = "api_flow" => CrosswordPuzzles # <<>>
    /\ fsent' = Append(fsent, Request("GET", "crossword", 0))
    /\ fcarried' = Append(fcarried, Step3Params)
    /\ LET o == step3_load_crossword(fscript)
       IN  IF StepFailed(o) THEN FlowFail(o) /\ UNCHANGED fcontext
           ELSE /\ \E crossword_params \in CrosswordParams :
                      fcontext' = StorePlay(fcontext, crossword_params)
                /\ fresults' = fresults @@ [step3 |-> o.value]
                /\ fpc' = "step4"
                /\ fout' = fout
    /\ UNCHANGED <<fver, fscript, fcrosswords, fit, fiters, fprimary, fsecondary, fposted>>
    /\ UNCHANGED <<pipeVars, waveVars, lineVars, batchVars>>

\* step4_post_plays up to its loop: the first grid state is generated.
\* Its `raise ValueError("missing context from earlier steps")` is not taken
\* in this flow: step 3 has returned only with a token, a uid and a puzzle.
FlowStep4Begin ==
    /\ fpc = "step4"
    /\ ~(Missing(Context("load_token")) \/ Missing(Context("uid")))
    /\ \E g \in generate_state(StateLen) :
          /\ fprimary' = g.primary
          /\ fsecondary' = g.secondary
    /\ fiters' = <<>>
    /\ fit' = 1
    /\ fpc' = "play"
    /\ UNCHANGED <<fver, fscript, fcrosswords, fresults, fposted, fsent, fcontext,
                   fcarried, fout>>
    /\ UNCHANGED <<pipeVars, waveVars, lineVars, batchVars>>

\* The rest of one pass of the loop, once curr_primary and curr_secondary
\* are set: the request, the checks, results.append; after the last pass
\* step4_post_plays returns and the flow stores step4 and success.
PostPlay(curr_primary, curr_secondary) ==
    /\ fsent' = Append(fsent, Request("POST", "api/v1/plays", PlayState(fit)))
    /\ fcarried' = Append(fcarried, PlayPayload)
    /\ UNCHANGED fcontext
    /\ fposted' = [primaryState |-> curr_primary, secondaryState |-> curr_secondary]
    /\ LET o == PlayPost(fscript, fit)
           r == fresults @@ [step4   |-> [iterations |-> Append(fiters, o.value),
                                          success    |-> TRUE],
                             success |-> TRUE]
       IN  IF StepFailed(o)
           THEN FlowFail(o) /\ UNCHANGED <<fit, fiters>>
           ELSE IF fit = NumPlays
           THEN /\ fiters' = Append(fiters, o.value)
                /\ fresults' = r
                /\ fout' = Returned(r)
                /\ fpc' = "done"
                /\ fit' = fit
           ELSE /\ fiters' = Append(fiters, o.value)
                /\ fit' = fit + 1
                /\ UNCHANGED <<fresults, fout, fpc>>

\* i == 0: playState 1, no grid state.
PlayFirst ==
    /\ fpc = "play"
    /\ fit = 1
    /\ PostPlay(NoneState, NoneState)
    /\ UNCHANGED <<fver, fscript, fcrosswords, fprimary, fsecondary>>
    /\ UNCHANGED <<pipeVars, waveVars, lineVars, batchVars>>

\* 0 < i < 9: playState 2, the grid state is mutated and sent.
PlayMutate ==
    /\ fpc = "play"
    /\ fit > 1 /\ fit < NumPlays
    /\ Len(fprimary) >= 1
    /\ \E g \in mutate_state(fprimary, fsecondary) :
          /\ fprimary' = g.primary
          /\ fsecondary' = g.secondary
          /\ PostPlay(g.primary, g.secondary)
    /\ UNCHANGED <<fver, fscript, fcrosswords>>
    /\ UNCHANGED <<pipeVars, waveVars, lineVars, batchVars>>

\* 0 < i < 9 on an empty grid: random.randint(1, 0) raises ValueError.
PlayMutateEmpty ==
    /\ fpc = "play"
    /\ fit > 1 /\ fit < NumPlays
    /\ Len(fprimary) = 0
    /\ FlowFail(Raised("ValueError", "empty range for randrange()"))
    /\ UNCHANGED <<fver, fscript, fcrosswords, fit, fiters, fprimary, fsecondary,
                   fposted, fsent, fcontext, fcarried>>
    /\ UNCHANGED <<pipeVars, waveVars, lineVars, batchVars>>

\* i == 9: playState 4, a completed grid is sent.
PlayComplete ==
    /\ fpc = "play"
    /\ fit = NumPlays
    /\ \E g \in complete_state(StateLen) : PostPlay(g.primary, g.secondary)
    /\ UNCHANGED <<fver, fscript, fcrosswords, fprimary, fsecondary>>
    /\ UNCHANGED <<pipeVars, waveVars, lineVars, batchVars>>

FlowNext ==
    \/ FlowStep1
    \/ FlowStep2
    \/ FlowStep3NoContext
    \/ FlowStep3NoCrossword
    \/ FlowStep3
    \/ FlowStep4Begin
    \/ PlayFirst
    \/ PlayMutate
    \/ PlayMutateEmpty
    \/ PlayComplete

SpecFlow == FlowInit /\ [][FlowNext]_vars

(***************************************************************************)
(* _mutate_state on its own: a grid of 0..MaxGridLen cells is handed to    *)
(* it (fprimary, fsecondary) and what it returns is kept (fposted); on an  *)
(* empty grid random.randint(1, 0) raises ValueError.                      *)
(***************************************************************************)
\* The grids of `length` cells, each cell empty or holding a letter.
GridsOfLen(length) ==
    { GridOf(length, f) : f \in UNION { [F -> {"a"}] : F \in SUBSET (1..length) } }

MutateInit ==
    /\ fver \in FlowVersions
    /\ fscript = [failAt |-> 0, kind |-> "ok", lat |-> 0]
    /\ fcrosswords = <<>>
    /\ fpc = "mutate"
    /\ fit = 0
    /\ fresults = <<>>
    /\ fiters = <<>>
    /\ \E length \in 0..MaxGridLen : \E g \in GridsOfLen(length) :
          fprimary = g.primary /\ fsecondary = g.secondary
    /\ fposted = [primaryState |-> NoneState, secondaryState |-> NoneState]
    /\ fsent = <<>>
    /\ fcontext = <<>>
    /\ fcarried = <<>>
    /\ fout = Returned(<<>>)
    /\ logs = [f \in Sources |-> <<>>]
    /\ built = [f \in Sources |-> <<>>]
    /\ merged = [j \in AllJobs |-> <<>>]
    /\ altDelay = 0
    /\ ppc = "done"
    /\ rps = 1 /\ duration = 0 /\ wave_num = 0 /\ pc = "returned" /\ nsub = 0
    /\ fut = <<>> /\ yielded = {} /\ wave_results = <<>> /\ waves = <<>>
    /\ all_results = <<>> /\ active = {} /\ launches = <<>>
    /\ elapsed = 0 /\ sleep_time = 0 /\ ran = <<>> /\ slept = 0
    /\ NoLine
    /\ NoBatch

\* _mutate_state(primary, secondary) returns.
MutateOnce ==
    /\ fpc = "mutate"
    /\ Len(fprimary) >= 1
    /\ \E g \in MutationsOn(fprimary, fsecondary, 1..Len(fprimary)) :
          fposted' = [primaryState |-> g.primary, secondaryState |-> g.secondary]
    /\ fpc' = "mutated"
    /\ UNCHANGED <<fver, fscript, fcrosswords, fit, fresults, fiters, fprimary,
                   fsecondary, fsent, fcontext, fcarried, fout>>
    /\ UNCHANGED <<pipeVars, waveVars, lineVars, batchVars>>

\* _mutate_state on an empty grid: random.randint(1, min(5, 0)) raises.
MutateEmpty ==
    /\ fpc = "mutate"
    /\ Len(fprimary) = 0
    /\ fout' = Raised("ValueError", "empty range for randrange()")
    /\ fpc' = "raised"
    /\ UNCHANGED <<fver, fscript, fcrosswords, fit, fresults, fiters, fprimary,
                   fsecondary, fposted, fsent, fcontext, fcarried>>
    /\ UNCHANGED <<pipeVars, waveVars, lineVars, batchVars>>

MutateNext ==
    \/ MutateOnce
    \/ MutateEmpty

SpecMutate == MutateInit /\ [][MutateNext]_vars

\* The cells in which the grid returned differs from the grid handed in.
Flipped ==
    { c \in 1..Len(fprimary) :
        \/ fposted.primaryState[c] # fprimary[c]
        \/ fposted.secondaryState[c] # fsecondary[c] }

\* C31: the grid _mutate_state returns has the length of the grid handed
\* in and differs from it in at least 1 and at most min(5, length) cells;
\* each of these held '#' / '0' and holds a letter / '1', or held a letter
\* and holds '#' / '0'; every other cell is as it was.  (There is no
\* mutation of a grid of length 0: the call raises.)
C31_MutationFlipsOneToFive ==
    /\ fpc = "mutated" =>
          /\ Len(fprimary) >= 1
          /\ Len(fposted.primaryState) = Len(fprimary)
          /\ Len(fposted.secondaryState) = Len(fsecondary)
          /\ Cardinality(Flipped) >= 1
          /\ Cardinality(Flipped) <= 5
          /\ Cardinality(Flipped) <= Len(fprimary)
          /\ \A c \in Flipped :
                IF fprimary[c] = "#"
                THEN /\ fposted.primaryState[c] \in Letters
                     /\ fposted.secondaryState[c] = "1"
                ELSE /\ fposted.primaryState[c] = "#"
                     /\ fposted.secondaryState[c] = "0"
    /\ fpc = "raised" => Len(fprimary) = 0

\* C31 witness: a grid of six cells came back with five of them flipped,
\* one emptied and four filled.
C31_Witness ==
    /\ fpc = "mutated"
    /\ Len(fprimary) = 6
    /\ Cardinality(Flipped) = 5
    /\ Cardinality({ c \in Flipped : fprimary[c] = "#" }) = 4

(***************************************************************************)
(* Properties of the session flow.                                         *)
(***************************************************************************)
\* The requests of a flow that meets no failure.
FullOrder ==
    << Request("GET", "date-picker", 0),
       Request("POST", "postPickerStatus", 0),
       Request("GET", "crossword", 0) >>
    \o [k \in 1..NumPlays |-> Request("POST", "api/v1/plays", PlayState(k))]

FlowEnded == fpc \in {"done", "raised"}

\* The api_flow_v2 flow, request by request, ends as run_sequential_flow does.
FlowAgrees ==
    (FlowEnded /\ fver = "api_flow_v2" /\ ~Missing(Context("uid"))) =>
        LET o == run_sequential_flow(fscript)
        IN  fout = IF "step1" \in DOMAIN o.value
                   THEN [o EXCEPT !.value.step1.uid = Context("uid")]
                   ELSE o

\* C12: a session flow sends its requests in the order date-picker,
\* postPickerStatus, crossword, play posts 1 to 10: what it has sent is
\* always a prefix of that list (nothing skipped, nothing sent twice),
\* every request before the last one sent was answered well, and the flow
\* sends nothing more once a step has failed.
C12_RequestOrder ==
    /\ Len(fsent) <= NumRequests
    /\ fsent = SubSeq(FullOrder, 1, Len(fsent))
    /\ \A r \in 1..(Len(fsent) - 1) : ResponseKind(fscript, r) = "ok"
    /\ fpc = "step1" => Len(fsent) = 0
    /\ fpc = "step2" => Len(fsent) = 1
    /\ fpc = "step3" => Len(fsent) = 2
    /\ fpc = "step4" => Len(fsent) = 3
    /\ fpc = "play" => Len(fsent) = 3 + (fit - 1)
    /\ (fpc = "done" /\ fresults.success) =>
          /\ fsent = FullOrder
          /\ \A r \in 1..NumRequests : ResponseKind(fscript, r) = "ok"
    /\ (FlowEnded /\ fscript.failAt > 0) => Len(fsent) <= fscript.failAt

\* C12 witness: a flow whose fifth play post met an HTTP error has ended
\* after eight requests.
C12_Witness ==
    /\ fpc = "done"
    /\ fscript.failAt = 8 /\ fscript.kind = "http"
    /\ Len(fsent) = 8
    /\ fresults.success = FALSE

\* The iterations a session result reports as completed.
ReportedIterations ==
    LET its == Get(Get(fresults, "step4", <<>>), "iterations", <<>>)
    IN  [i \in 1..Len(its) |-> its[i].iteration]

\* C13 (as claimed): when play iteration k fails on a non-zero status, the
\* session result reports iterations 1..k-1 as completed, with an error
\* tag, and holds no entry for iterations k..10.  Fails: the raise leaves
\* step4_post_plays before its list of iterations is returned, and the
\* result has no step4 at all.
C13_PlayFailureReportsCompleted ==
    \A k \in 1..NumPlays :
        (fpc = "done" /\ fscript.kind = "app" /\ fscript.failAt = 3 + k
           /\ Len(fsent) = 3 + k) =>
            /\ "error" \in DOMAIN fresults
            /\ ReportedIterations = [i \in 1..(k - 1) |-> i]

GridConsistent(primary, secondary) ==
    /\ Len(primary) = Len(secondary)
    /\ \A k \in 1..Len(primary) : (primary[k] # "#") <=> (secondary[k] = "1")

HasGrid(pz) == {"gridWidth", "gridHeight"} \subseteq DOMAIN pz

\* C18 (as claimed): every grid state sent during PLAY, and the grid the
\* flow holds, has len(primary) = len(secondary) = gridWidth * gridHeight of
\* the loaded puzzle, and primary != '#' iff secondary = '1' in every cell.
\* The length part fails: api_flow_v2 uses STATE_LEN whatever the puzzle.
C18_GridMatchesPuzzle ==
    /\ fposted.primaryState # NoneState =>
          /\ GridConsistent(fposted.primaryState, fposted.secondaryState)
          /\ HasGrid(fcrosswords[1]) =>
                Len(fposted.primaryState)
                  = fcrosswords[1].gridWidth * fcrosswords[1].gridHeight
    /\ fpc = "play" =>
          /\ GridConsistent(fprimary, fsecondary)
          /\ HasGrid(fcrosswords[1]) =>
                Len(fprimary) = fcrosswords[1].gridWidth * fcrosswords[1].gridHeight

\* C18 (amended): every grid state sent during PLAY, and the grid the flow
\* holds, has len(primary) = len(secondary) = the flow's state length
\* (api_flow: gridWidth * gridHeight of the selected puzzle, 5 for a
\* dimension it lacks; api_flow_v2: STATE_LEN), and primary != '#' iff
\* secondary = '1' in every cell, for the generated grid, after every
\* mutation and for the completed grid.
C18_GridMatchesStateLen ==
    /\ fposted.primaryState # NoneState =>
          /\ GridConsistent(fposted.primaryState, fposted.secondaryState)
          /\ Len(fposted.primaryState) = StateLen
    /\ fpc = "play" =>
          /\ GridConsistent(fprimary, fsecondary)
          /\ Len(fprimary) = StateLen

\* C18 witness: the fourth play post of an api_flow_v2 session carried a
\* mutated grid with a filled and an empty cell.
C18_Witness ==
    /\ fver = "api_flow_v2"
    /\ fpc = "play" /\ fit = 5
    /\ fposted.primaryState[1] # "#"
    /\ fposted.primaryState[2] = "#"
    /\ Len(fposted.secondaryState) = STATE_LEN

\* The failures of a step that the flow reports: no answer, a status that
\* is not 2xx, a body without the params block or the token, a status field
\* that is not 0.
ReportedFailures == {"transport", "http", "app"}

\* The flow has met the failure its script holds.
FlowFailed ==
    /\ fscript.kind \in ReportedFailures
    /\ Len(fsent) >= fscript.failAt

StepKey(n) ==
    CASE n = 1 -> "step1" [] n = 2 -> "step2" [] n = 3 -> "step3" [] OTHER -> "step4"

\* C33: in every dict run_sequential_flow returns, step n is present only
\* if steps 1..n-1 are, success is present, success is True exactly when
\* step4 is present, and error is present exactly when success is False.
C33_ResultShape ==
    fpc = "done" =>
        /\ fout = Returned(fresults)
        /\ \A n \in 2..4 :
              StepKey(n) \in DOMAIN fresults =>
                  \A k \in 1..(n - 1) : StepKey(k) \in DOMAIN fresults
        /\ "success" \in DOMAIN fresults
        /\ fresults.success \in BOOLEAN
        /\ fresults.success <=> "step4" \in DOMAIN fresults
        /\ "error" \in DOMAIN fresults <=> ~fresults.success
        /\ DOMAIN fresults \subseteq
              {"step1", "step2", "step3", "step4", "success", "error"}

\* C33 witness: a flow whose puzzle load failed has returned a dict with
\* step1, step2, success and error.
C33_Witness ==
    /\ fpc = "done"
    /\ DOMAIN fresults = {"step1", "step2", "success", "error"}
    /\ fscript.failAt = 3

\* The step sends a play post.
PlayPosted ==
    /\ Len(fsent') = Len(fsent) + 1
    /\ fsent'[Len(fsent')].endpoint = "api/v1/plays"

\* The grid state a play post carried, as a grid.
PostedGrid(posted) ==
    [primary |-> posted.primaryState, secondary |-> posted.secondaryState]

\* Grid `new` is grid `old` after one mutation: one to MaxChanges cells
\* differ, each of them emptied if it held a letter and given a letter if
\* it was empty.
OneMutation(old, new) ==
    LET D == { c \in 1..Len(old.primary) :
                 \/ new.primary[c] # old.primary[c]
                 \/ new.secondary[c] # old.secondary[c] }
    IN  /\ Len(new.primary) = Len(old.primary)
        /\ Len(new.secondary) = Len(old.secondary)
        /\ Cardinality(D) >= 1
        /\ Cardinality(D) <= MaxChanges
        /\ \A c \in D :
              IF old.primary[c] = "#"
              THEN new.primary[c] \in Letters /\ new.secondary[c] = "1"
              ELSE new.primary[c] = "#" /\ new.secondary[c] = "0"

\* The play posts among the requests sent.
PlayPostsSent == SelectSeq(fsent, LAMBDA q : q.endpoint = "api/v1/plays")

\* C26: a flow that completes PLAY has sent exactly ten play posts, with
\* playState 1, eight times 2, and 4; the first post carries null primary
\* and secondary state, the tenth a grid of the flow's length with a letter
\* in every cell, and each post in between the grid obtained by one
\* mutation of the grid the post before it carried, the first of them by
\* one mutation of the grid generated before the loop.
C26_PlayPostSequence ==
    /\ []((fpc = "play" /\ fit <= 2) =>
            /\ Len(fprimary) = StateLen
            /\ Len(fsecondary) = StateLen
            /\ \A c \in 1..StateLen :
                  \/ fprimary[c] = "#" /\ fsecondary[c] = "0"
                  \/ fprimary[c] \in Letters /\ fsecondary[c] = "1")
    /\ []((fpc = "done" /\ fresults.success) =>
            /\ Len(PlayPostsSent) = 10
            /\ \A k \in 1..10 :
                  PlayPostsSent[k].playState
                      = IF k = 1 THEN 1 ELSE IF k = 10 THEN 4 ELSE 2)
    /\ [][PlayPosted =>
            LET k    == Len(fsent') - 3
                req  == fsent'[Len(fsent')]
                prev == IF k = 2
                        THEN [primary |-> fprimary, secondary |-> fsecondary]
                        ELSE PostedGrid(fposted)
            IN  /\ k \in 1..10
                /\ k = 1 =>
                      /\ req.playState = 1
                      /\ fposted' = [primaryState |-> NoneState,
                                     secondaryState |-> NoneState]
                /\ (k > 1 /\ k < 10) =>
                      /\ req.playState = 2
                      /\ OneMutation(prev, PostedGrid(fposted'))
                      /\ fprimary' = fposted'.primaryState
                      /\ fsecondary' = fposted'.secondaryState
                /\ k = 10 =>
                      /\ req.playState = 4
                      /\ Len(fposted'.primaryState) = StateLen
                      /\ Len(fposted'.secondaryState) = StateLen
                      /\ \A c \in 1..StateLen :
                            /\ fposted'.primaryState[c] \in Letters
                            /\ fposted'.secondaryState[c] = "1"
          ]_vars

\* C26 witness: an api_flow session on a 2 x 2 puzzle has completed PLAY,
\* its last post carrying four letters.
C26_Witness ==
    /\ fver = "api_flow"
    /\ fpc = "done"
    /\ fresults.success
    /\ Len(PlayPostsSent) = 10
    /\ Len(fposted.primaryState) = 4
    /\ \A c \in 1..4 : fposted.primaryState[c] \in Letters

C30_TokenAndUidCarried ==
    \A r \in 2..Len(fcarried) :
        /\ ~Missing(fcarried[r].loadToken)
        /\ fcarried[r].loadToken = Context("load_token")
        /\ ~Missing(fcarried[r].uid)
        /\ fcarried[r].uid = Context("uid")

\* C30 (amended): postPickerStatus carries the loadToken extracted in
\* PICKER and no uid; the puzzle load and every play post carry that
\* loadToken and the uid chosen in PICKER (the one the date-picker request
\* was sent with), neither of them empty; once step 1 is over the stored
\* token and uid do not change; a session whose uid is empty sends
\* postPickerStatus and, if that is answered well, fails before the puzzle
\* load.
C30_TokenCarriedUidFromLoad ==
    /\ [](/\ Len(fcarried) = Len(fsent)
          /\ Len(fcarried) >= 1 => fcarried[1].uid = Context("uid")
          /\ Len(fcarried) >= 2 =>
                /\ Context("load_token") \in LoadTokens
                /\ fcarried[2] = [loadToken |-> Context("load_token"), uid |-> "None"]
          /\ \A r \in 3..Len(fcarried) :
                /\ fcarried[r].loadToken = Context("load_token")
                /\ fcarried[r].uid = fcarried[1].uid
                /\ ~Missing(fcarried[r].uid)
          /\ (FlowEnded /\ "step2" \in DOMAIN fresults /\ Missing(Context("uid"))) =>
                /\ Len(fsent) = 2
                /\ fresults.success = FALSE
                /\ fresults.error = "need context from step1")
    /\ [][fpc # "step1" =>
              /\ Get(fcontext', "load_token", "None") = Context("load_token")
              /\ Get(fcontext', "uid", "None") = Context("uid")]_vars

\* C30 witness: a session with a uid of its own has sent all its requests,
\* the last play post with that uid and the token of the picker.
C30_Witness ==
    /\ fpc = "done"
    /\ Len(fcarried) = NumRequests
    /\ fcarried[1].uid = "k3x9"
    /\ fcarried[NumRequests].loadToken = "tokB"
    /\ fcarried[NumRequests].uid = "k3x9"
    /\ fcarried[2].uid = "None"


\* The puzzle page was loaded and its data block had no rawp.
LoadedWithoutRawp ==
    /\ "crossword_params" \in DOMAIN fcontext
    /\ "rawp" \notin DOMAIN fcontext.crossword_params

\* The play posts sent so far: the requests after the first three.
PlayPostsCarried == SubSeq(fcarried, 4, Len(fcarried))

\* C38: PUZZLE_LOAD does not fail when the data block of the puzzle page
\* has no rawp: step 3 returns its result, the flow goes on to the play
\* posts (it does not end before the first of them is sent), and every play
\* post carries the playId "" and score 0, timeOnPage 5000, timeTaken 5.
C38_NoRawpDefaults ==
    LoadedWithoutRawp =>
        /\ "step3" \in DOMAIN fresults
        /\ fpc \in {"step4", "play", "done", "raised"}
        /\ FlowEnded => Len(PlayPostsCarried) >= 1
        /\ \A i \in 1..Len(PlayPostsCarried) :
               /\ PlayPostsCarried[i].playId = ""
               /\ PlayPostsCarried[i].score = 0
               /\ PlayPostsCarried[i].timeOnPage = 5000
               /\ PlayPostsCarried[i].timeTaken = 5

\* C38 witness: a flow whose puzzle page had no rawp has sent its ten play
\* posts and succeeded.
C38_Witness ==
    /\ LoadedWithoutRawp
    /\ fpc = "done"
    /\ Get(fresults, "success", FALSE) = TRUE
    /\ Len(PlayPostsCarried) = NumPlays
    /\ PlayPostsCarried[NumPlays].playId = ""

(***************************************************************************)
(* One log line and the line parsers: process_line and extract_user_id of  *)
(* log_traffic_extractor.py ("pmm") and pplmag_extractor.py ("pplmag"),    *)
(* process_line of log_distiller.py and parse_logging_filter_line of       *)
(* parse_logs.py.  A line is held as the parts the parsers' regular        *)
(* expressions look for:                                                   *)
(*   day, mon     the date of the timestamp "D Mon 00:00:00.134"           *)
(*   service      the word after the timestamp                             *)
(*   servlet, endpoint   the bracketed context [servlet:endpoint]          *)
(*   completed    the line is a request line "- COMPLETED Request type: M  *)
(*                ... elapsedTimeMs: n IP: a UA: b" (else another message) *)
(*   method       M                                                        *)
(*   json         the embedded "payloadJson: {...}" object: "none",        *)
(*                "whole", or "truncated" (its closing brace is cut off)   *)
(*   jsonUserId   the object has a quoted "userId":"uJ"                    *)
(*   token        the object has a quoted "loadToken": none, one the       *)
(*                decoder recovers no uid from ("bad"), or one that        *)
(*                carries the uid "uT" ("uid")                             *)
(*   userIdParam  the line has the bare field "userId: uP"                 *)
(*   uidParam     the line has the bare field "uid: uU"                    *)
(***************************************************************************)
Months == {"Feb", "Dec"}

Days == {21, 31}

\* The days of the month in 2025 (CURRENT_YEAR) and the days before it.
DaysIn(mon) == IF mon = "Feb" THEN 28 ELSE 31

DaysBefore(mon) == IF mon = "Feb" THEN 31 ELSE 334

LineEndpoints ==
    {"/date-picker", "/postPickerStatus", "/api/v1/plays", "/api/v1/puzzles",
     "/crossword", "/sudoku", "/jigsaw", "/admin"}

EmbeddedJson ==
    {[json |-> "none", jsonUserId |-> FALSE, token |-> "none"]}
    \cup [json : {"whole", "truncated"}, jsonUserId : BOOLEAN,
          token : {"none", "bad", "uid"}]

\* A line's identifiers: the userId key of its embedded JSON, the uid of its
\* loadToken, its bare "userId:" and "uid:" fields.  In a blank line the
\* userId of the JSON is the empty string and the bare fields hold only a
\* comma.
Lines ==
    { [day |-> d, mon |-> m, service |-> sv, servlet |-> sl, endpoint |-> ep,
       completed |-> c, method |-> me, json |-> j.json,
       jsonUserId |-> j.jsonUserId, token |-> j.token,
       userIdParam |-> up, uidParam |-> uu, blank |-> bl] :
        d \in Days, m \in Months, sv \in {"LoggingFilter", "PlaysPost"},
        sl \in {"PlaysServlet", "ErrorServlet"}, ep \in LineEndpoints,
        c \in BOOLEAN, me \in {"GET", "POST"}, j \in EmbeddedJson,
        up \in BOOLEAN, uu \in BOOLEAN, bl \in BOOLEAN }

\* parse_log_timestamp / parse_timestamp: strptime raises ValueError for a
\* day the month does not have, and the function returns 0; otherwise the
\* epoch time, which is positive for every date of 2025.  The time is
\* counted here in days since the last day of 2024.
parse_log_timestamp(l) ==
    IF l.day \in 1..DaysIn(l.mon) THEN DaysBefore(l.mon) + l.day ELSE 0

\* decode_load_token_uid(extract_load_token(line)), None when the line has
\* no token or the decoder finds no uid.
decode_load_token_uid(l) == IF l.token = "uid" THEN "uT" ELSE NoUser

(***************************************************************************)
(* log_traffic_extractor.py                                                *)
(***************************************************************************)
PmmAllowedEndpoints ==
    {"/date-picker", "/postPickerStatus", "/api/v1/plays", "/crossword",
     "/sudoku", "/wordf", "/wordrow", "/wordsearch", "/quiz", "/codeword"}

PmmGameEndpoints ==
    {"/crossword", "/sudoku", "/wordf", "/wordrow", "/wordsearch", "/quiz",
     "/codeword"}

\* extract_user_id(line): the userId of a parsed payload, then the quoted
\* userId found by USER_ID_PATTERN (which is what a truncated payload
\* leaves), then the bare "uid:" field.  The bare "userId:" field and the
\* loadToken are not looked at.
\* payload['userId'] is returned as it is, the empty string included;
\* USER_ID_PATTERN needs one character at least between the quotes, and
\* UID_PATTERN takes the comma for the uid.
PmmExtractUserId(l) ==
    IF l.json = "whole" /\ l.jsonUserId THEN (IF l.blank THEN "" ELSE "uJ")
    ELSE IF l.jsonUserId /\ ~l.blank THEN "uJ"
    ELSE IF l.uidParam THEN (IF l.blank THEN "," ELSE "uU")
    ELSE NoUser

PmmNormalize(endpoint) ==
    IF endpoint \in PmmGameEndpoints THEN "/crossword" ELSE endpoint

\* The userId process_line settles on.
PmmUserId(l) ==
    IF PmmNormalize(l.endpoint) = "/postPickerStatus"
    THEN decode_load_token_uid(l)
    ELSE PmmExtractUserId(l)

\* process_line(line): a sequence holding the event, empty for None.
PmmProcessLine(l) ==
    IF ~l.completed THEN <<>>
    ELSE IF l.service # "LoggingFilter" THEN <<>>
    ELSE IF l.servlet = "ErrorServlet" THEN <<>>
    ELSE IF l.endpoint \notin PmmAllowedEndpoints THEN <<>>
    ELSE IF parse_log_timestamp(l) = 0 THEN <<>>
    ELSE IF PmmUserId(l) = NoUser THEN <<>>
    ELSE << [ts |-> parse_log_timestamp(l),
             endpoint |-> PmmNormalize(l.endpoint),
             userId |-> PmmUserId(l)] >>

(***************************************************************************)
(* pplmag_extractor.py                                                     *)
(***************************************************************************)
PplmagAllowedEndpoints ==
    {"/api/v1/plays", "/api/v1/puzzles", "/postPickerStatus", "/crossword",
     "/jigsaw", "/sudoku", "/wordf", "/wordrow", "/wordsearch", "/quiz",
     "/codeword"}

PplmagGameEndpoints ==
    {"/crossword", "/jigsaw", "/sudoku", "/wordf", "/wordrow", "/wordsearch",
     "/quiz", "/codeword"}

\* extract_user_id(line, method): for a POST the quoted userId, then the
\* uid of the loadToken; then, for every method, the bare "userId:" field
\* and the bare "uid:" field.
\* The quoted userId needs one character at least; the value of a bare
\* field is returned after rstrip(','), the empty string included.
PplmagExtractUserId(l) ==
    IF l.method = "POST" /\ l.jsonUserId /\ ~l.blank THEN "uJ"
    ELSE IF l.method = "POST" /\ decode_load_token_uid(l) # NoUser
         THEN decode_load_token_uid(l)
    ELSE IF l.userIdParam THEN (IF l.blank THEN "" ELSE "uP")
    ELSE IF l.uidParam THEN (IF l.blank THEN "" ELSE "uU")
    ELSE NoUser

PplmagNormalize(endpoint) ==
    IF endpoint \in PplmagGameEndpoints THEN "/crossword" ELSE endpoint

PplmagProcessLine(l) ==
    IF ~l.completed \/ l.service # "LoggingFilter" THEN <<>>
    ELSE IF l.endpoint \notin PplmagAllowedEndpoints THEN <<>>
    ELSE IF parse_log_timestamp(l) = 0 THEN <<>>
    ELSE IF /\ PplmagNormalize(l.endpoint) \in {"/api/v1/plays", "/postPickerStatus"}
            /\ PplmagExtractUserId(l) = NoUser
         THEN <<>>
    ELSE << [ts |-> parse_log_timestamp(l),
             endpoint |-> PplmagNormalize(l.endpoint),
             method |-> l.method,
             userId |-> PplmagExtractUserId(l)] >>

(***************************************************************************)
(* log_distiller.py and parse_logs.py                                      *)
(***************************************************************************)
\* log_distiller.process_line: any service; the payloadJson object must be
\* there with its closing brace, parse, and carry a userId that is not
\* empty.  Of the event, the fields ts, endpoint and user are kept here.
DistillerProcessLine(l) ==
    IF l.json # "whole" THEN <<>>
    ELSE IF ~l.jsonUserId \/ l.blank THEN <<>>
    ELSE << [ts |-> parse_log_timestamp(l),
             endpoint |-> l.endpoint,
             user |-> "uJ"] >>

\* parse_logs.parse_logging_filter_line: a LoggingFilter request line; the
\* userId key is set only when the line has the bare "userId:" field.
ParseLoggingFilterLine(l) ==
    IF ~l.completed \/ l.service # "LoggingFilter" THEN <<>>
    ELSE IF l.userIdParam
         THEN << [ts |-> parse_log_timestamp(l), servlet |-> l.servlet,
                  endpoint |-> l.endpoint, method |-> l.method,
                  userId |-> IF l.blank THEN "," ELSE "uP"] >>
         ELSE << [ts |-> parse_log_timestamp(l), servlet |-> l.servlet,
                  endpoint |-> l.endpoint, method |-> l.method] >>

(***************************************************************************)
(* The specification of the line parsers: one line, given to each          *)
(* function in turn.                                                       *)
(***************************************************************************)
Extractors == {"pmm", "pplmag"}

Parsers == {"pmm", "pplmag", "distiller", "parse_logs"}

NextParser(p) ==
    CASE p = "pmm_id"    -> "pplmag_id"
      [] p = "pplmag_id" -> "pmm"
      [] p = "pmm"       -> "pplmag"
      [] p = "pplmag"    -> "distiller"
      [] p = "distiller" -> "parse_logs"
      [] OTHER           -> "done"

LineInit ==
    /\ line \in Lines
    /\ resolved = [x \in Extractors |-> NoUser]
    /\ event = [x \in Parsers |-> <<>>]
    /\ lpc = "pmm_id"
    /\ logs = [f \in Sources |-> <<>>]
    /\ built = [f \in Sources |-> <<>>]
    /\ merged = [j \in MergeJobs \cup {"ALT"} |-> <<>>]
    /\ altDelay = 0
    /\ ppc = "done"
    /\ rps = 1 /\ duration = 0 /\ wave_num = 0 /\ pc = "returned" /\ nsub = 0
    /\ fut = <<>> /\ yielded = {} /\ wave_results = <<>> /\ waves = <<>>
    /\ all_results = <<>> /\ active = {} /\ launches = <<>>
    /\ elapsed = 0 /\ sleep_time = 0 /\ ran = <<>> /\ slept = 0
    /\ NoFlow
    /\ NoBatch

\* log_traffic_extractor.extract_user_id(line)
PmmResolve ==
    /\ lpc = "pmm_id"
    /\ resolved' = [resolved EXCEPT !["pmm"] = PmmExtractUserId(line)]
    /\ lpc' = NextParser(lpc)
    /\ UNCHANGED <<line, event>>
    /\ UNCHANGED <<pipeVars, waveVars, flowVars, batchVars>>

\* pplmag_extractor.extract_user_id(line, method)
PplmagResolve ==
    /\ lpc = "pplmag_id"
    /\ resolved' = [resolved EXCEPT !["pplmag"] = PplmagExtractUserId(line)]
    /\ lpc' = NextParser(lpc)
    /\ UNCHANGED <<line, event>>
    /\ UNCHANGED <<pipeVars, waveVars, flowVars, batchVars>>

\* log_traffic_extractor.process_line(line)
PmmLine ==
    /\ lpc = "pmm"
    /\ event' = [event EXCEPT !["pmm"] = PmmProcessLine(line)]
    /\ lpc' = NextParser(lpc)
    /\ UNCHANGED <<line, resolved>>
    /\ UNCHANGED <<pipeVars, waveVars, flowVars, batchVars>>

\* pplmag_extractor.process_line(line)
PplmagLine ==
    /\ lpc = "pplmag"
    /\ event' = [event EXCEPT !["pplmag"] = PplmagProcessLine(line)]
    /\ lpc' = NextParser(lpc)
    /\ UNCHANGED <<line, resolved>>
    /\ UNCHANGED <<pipeVars, waveVars, flowVars, batchVars>>

\* log_distiller.process_line(line)
DistillerLine ==
    /\ lpc = "distiller"
    /\ event' = [event EXCEPT !["distiller"] = DistillerProcessLine(line)]
    /\ lpc' = NextParser(lpc)
    /\ UNCHANGED <<line, resolved>>
    /\ UNCHANGED <<pipeVars, waveVars, flowVars, batchVars>>

\* parse_logs.parse_logging_filter_line(line)
ParseLogsLine ==
    /\ lpc = "parse_logs"
    /\ event' = [event EXCEPT !["parse_logs"] = ParseLoggingFilterLine(line)]
    /\ lpc' = NextParser(lpc)
    /\ UNCHANGED <<line, resolved>>
    /\ UNCHANGED <<pipeVars, waveVars, flowVars, batchVars>>

LineNext ==
    \/ PmmResolve
    \/ PplmagResolve
    \/ PmmLine
    \/ PplmagLine
    \/ DistillerLine
    \/ ParseLogsLine

SpecLines == LineInit /\ [][LineNext]_vars

(***************************************************************************)
(* Properties of the line parsers.                                         *)
(***************************************************************************)
\* The parser x has been given the line.
Parsed(x) ==
    \/ lpc = "done"
    \/ x = "pmm" /\ lpc \in {"pplmag", "distiller", "parse_logs"}
    \/ x = "pplmag" /\ lpc \in {"distiller", "parse_logs"}
    \/ x = "distiller" /\ lpc = "parse_logs"

Resolved(x) == lpc \notin {"pmm_id"} /\ (x = "pplmag" => lpc # "pplmag_id")

ProcessLine(x, l) ==
    IF x = "pmm" THEN PmmProcessLine(l) ELSE PplmagProcessLine(l)

GameFamily ==
    {"/crossword", "/sudoku", "/wordf", "/wordrow", "/wordsearch", "/quiz",
     "/codeword", "/jigsaw"}

CanonicalEndpoints ==
    {"/date-picker", "/postPickerStatus", "/api/v1/plays", "/api/v1/puzzles",
     "/crossword"}

\* C14 (as claimed): in both extractors a line with a game-family path
\* (/jigsaw among them) is emitted as the same line with the path
\* /crossword is, with endpoint /crossword; a line whose path is neither
\* canonical nor of the game family yields no event; every emitted endpoint
\* is canonical.  Fails: log_traffic_extractor drops /jigsaw lines.
C14_GameFamilyCanonical ==
    \A x \in Extractors :
        Parsed(x) =>
            /\ line.endpoint \in GameFamily =>
                   event[x] = ProcessLine(x, [line EXCEPT !.endpoint = "/crossword"])
            /\ line.endpoint \notin GameFamily \cup CanonicalEndpoints =>
                   event[x] = <<>>
            /\ event[x] # <<>> => event[x][1].endpoint \in CanonicalEndpoints

\* The identifiers of the highest-priority source the line has: embedded
\* payload, then the bare fields, then the token.
PriorityUserIds(l) ==
    IF l.jsonUserId THEN {"uJ"}
    ELSE IF l.userIdParam \/ l.uidParam
         THEN {"uP" : b \in {l.userIdParam} \ {FALSE}}
              \cup {"uU" : b \in {l.uidParam} \ {FALSE}}
    ELSE {decode_load_token_uid(l)}

\* C15 (as claimed): extract_user_id of both extractors returns the
\* identifier of the highest-priority source present, in the order embedded
\* payload > bare userId/uid field > token decode (None when there is no
\* source).  Fails: pplmag_extractor decodes the token before it reads the
\* bare fields, and ignores the payload of a GET; log_traffic_extractor
\* reads neither the bare userId field nor the token.
C15_IdentityPriority ==
    \A x \in Extractors :
        Resolved(x) => resolved[x] \in PriorityUserIds(line)

\* C16 (as claimed): an emitted /postPickerStatus event carries the uid of
\* the line's loadToken, and a /postPickerStatus line without a decodable
\* token yields no event.  Fails: pplmag_extractor emits the event with the
\* JSON userId or a bare field.
C16_PickerStatusFromToken ==
    \A x \in Extractors :
        Parsed(x) /\ line.endpoint = "/postPickerStatus" /\ event[x] # <<>> =>
            /\ line.token = "uid"
            /\ event[x][1].userId = decode_load_token_uid(line)

\* C17 (as claimed): no parser emits a record whose ts is 0; a line whose
\* timestamp does not parse yields no record.  Fails: log_distiller and
\* parse_logs emit the record with ts 0.
C17_NoZeroTs ==
    \A x \in Parsers :
        Parsed(x) /\ event[x] # <<>> => event[x][1].ts # 0

\* The endpoints whose events need an identifier.
IdentityEndpoints == {"/api/v1/plays", "/postPickerStatus"}

\* The line has no identifier at all: no userId key in its JSON, no
\* decodable loadToken, neither bare field.
NoIdentifier(l) ==
    ~l.jsonUserId /\ l.token # "uid" /\ ~l.userIdParam /\ ~l.uidParam

\* C23 (as claimed): in both extractors every emitted event for
\* /api/v1/plays or /postPickerStatus carries a userId that is neither None
\* nor empty, and a line for such an endpoint that has no identifier yields
\* no event.  Fails: log_traffic_extractor emits the empty userId of a
\* payload, pplmag_extractor the empty rest of a bare field that held only
\* a comma.
C23_IdentityRequired ==
    \A x \in Extractors :
        Parsed(x) =>
            /\ \A i \in 1..Len(event[x]) :
                   event[x][i].endpoint \in IdentityEndpoints =>
                       event[x][i].userId \notin {NoUser, ""}
            /\ line.endpoint \in IdentityEndpoints /\ NoIdentifier(line) =>
                   event[x] = <<>>

(***************************************************************************)
(* merge_traffic.py run on its own, on input files of any content.         *)
(***************************************************************************)
\* The delayMs the records of the input files come with: a value the
\* recompute loop never produces.
PlantedDelayMs == MaxMergeTs + 1

\* The event records of the input files, with and without a ts.
MergeRecords ==
    { [ts |-> t, userId |-> u, delayMs |-> PlantedDelayMs] :
        t \in 0..MaxMergeTs, u \in Users }
    \cup
    { [userId |-> u, delayMs |-> PlantedDelayMs] : u \in Users }

\* A line of an input file, by what the load loop makes of it:
\*   "blank"   nothing is left after strip()
\*   "junk"    json.loads raises JSONDecodeError
\*   "value"   valid JSON that is not an object, such as [1] or 7
\*   "object"  a JSON object; `value` is the dict json.loads returns
MergeLines ==
    { [kind |-> k, value |-> <<>>] : k \in {"blank", "junk", "value"} }
    \cup
    { [kind |-> "object", value |-> r] : r \in MergeRecords }

\* json.dumps(record) + '\n'
DumpLine(r) == [kind |-> "object", value |-> r]

DumpLines(records) == [i \in 1..Len(records) |-> DumpLine(records[i])]

\* The load loop appends what json.loads returns, whatever its type.
Appended(l) == l.kind \in {"object", "value"}

\* The entries one input file adds to all_records: none when the path does
\* not exist.
FileRecords(file) ==
    IF file.exists THEN SelectSeq(file.lines, Appended) ELSE <<>>

\* all_records after the load loop, each entry with the kind of its line.
AllRecords(files) ==
    LoadRecords([i \in 1..Len(files) |-> FileRecords(files[i])])

Values(entries) == [i \in 1..Len(entries) |-> entries[i].value]

\* r.get('ts', 0) raises AttributeError on an entry that is not a dict.
SortRaises(files) ==
    \E i \in 1..Len(AllRecords(files)) : AllRecords(files)[i].kind = "value"

\* stats["records_per_file"][path.name] = file_records: one key per base
\* name, holding the count of the last existing file of that name.
RecordsPerFile(files) ==
    LET existing == { i \in 1..Len(files) : files[i].exists }
        last(n) == CHOOSE i \in existing :
                       /\ files[i].name = n
                       /\ \A j \in existing : files[j].name = n => j <= i
    IN  [n \in { files[i].name : i \in existing } |->
            Len(FileRecords(files[last(n)]))]

MergeStats(files) ==
    [input_files      |-> Len(files),
     total_records    |-> Len(AllRecords(files)),
     records_per_file |-> RecordsPerFile(files)]

\* The lines merge_and_sort writes to the output file.
MergeOutput(files) ==
    DumpLines(MergeAndSort([i \in 1..Len(files) |-> Values(FileRecords(files[i]))]))

\* The contents a file of n lines can have.
FileLines(n) == [1..n -> MergeLines]

\* Two input paths in different directories, the second with the base name
\* n2: that of the first or another one.
MergeInputFiles(e1, l1, n2, e2, l2) ==
    << [dir |-> "t1", name |-> "traffic.jsonl", exists |-> e1, lines |-> l1],
       [dir |-> "t2", name |-> n2, exists |-> e2, lines |-> l2] >>

\* The files hold MaxMergeLines lines at most between them, and a path that
\* does not exist has no lines.
MergeInit ==
    /\ \E n1 \in 0..MaxMergeLines : \E n2 \in 0..(MaxMergeLines - n1) :
          \E e1 \in (IF n1 = 0 THEN BOOLEAN ELSE {TRUE}) :
          \E e2 \in (IF n2 = 0 THEN BOOLEAN ELSE {TRUE}) :
          \E name2 \in {"traffic.jsonl", "pplmag.jsonl"} :
          \E l1 \in FileLines(n1) : \E l2 \in FileLines(n2) :
              minputs = MergeInputFiles(e1, l1, name2, e2, l2)
    /\ mstats = [exc |-> "none", msg |-> "", value |-> <<>>]
    /\ mout = <<>>
    /\ magain = <<>>
    /\ mpc = "start"
    /\ tinput = <<>> /\ toutput = <<>> /\ tpc = "done"
    /\ logs = [f \in Sources |-> <<>>]
    /\ built = [f \in Sources |-> <<>>]
    /\ merged = [j \in MergeJobs \cup {"ALT"} |-> <<>>]
    /\ altDelay = 0
    /\ ppc = "done"
    /\ rps = 1 /\ duration = 0 /\ wave_num = 0 /\ pc = "returned" /\ nsub = 0
    /\ fut = <<>> /\ yielded = {} /\ wave_results = <<>> /\ waves = <<>>
    /\ all_results = <<>> /\ active = {} /\ launches = <<>>
    /\ elapsed = 0 /\ sleep_time = 0 /\ ran = <<>> /\ slept = 0
    /\ NoFlow
    /\ NoLine

\* merge_and_sort(input_files, output_file) runs to its return.
MergeRun ==
    /\ mpc = "start"
    /\ ~SortRaises(minputs)
    /\ mout' = MergeOutput(minputs)
    /\ mstats' = [exc |-> "none", msg |-> "", value |-> MergeStats(minputs)]
    /\ mpc' = "merged"
    /\ UNCHANGED <<minputs, magain, tinput, toutput, tpc>>
    /\ UNCHANGED <<pipeVars, waveVars, flowVars, lineVars>>

\* all_records.sort raises: the output file is never opened.
MergeSortRaises ==
    /\ mpc = "start"
    /\ SortRaises(minputs)
    /\ mstats' = Raised("AttributeError", "object has no attribute 'get'")
    /\ mpc' = "raised"
    /\ UNCHANGED <<minputs, mout, magain, tinput, toutput, tpc>>
    /\ UNCHANGED <<pipeVars, waveVars, flowVars, lineVars>>

\* merge_and_sort([output_file], another_file): the output of the first run
\* is the one input of a second run.
MergeAgain ==
    /\ mpc = "merged"
    /\ magain' = MergeOutput(<< [dir |-> "t1", name |-> "composite.jsonl",
                                 exists |-> TRUE, lines |-> mout] >>)
    /\ mpc' = "remerged"
    /\ UNCHANGED <<minputs, mstats, mout, tinput, toutput, tpc>>
    /\ UNCHANGED <<pipeVars, waveVars, flowVars, lineVars>>

MergeNext ==
    \/ MergeRun
    \/ MergeSortRaises
    \/ MergeAgain

SpecMerge == MergeInit /\ [][MergeNext]_vars

(***************************************************************************)
(* Properties of merge_traffic.py on input files of any content.           *)
(***************************************************************************)
\* The event records of the object lines of a file that exists.
ValidRecords(file) ==
    LET object(l) == l.kind = "object"
    IN  IF file.exists THEN Values(SelectSeq(file.lines, object)) ELSE <<>>

ValidRecordsOfFiles(files) == [i \in 1..Len(files) |-> ValidRecords(files[i])]

RECURSIVE SumOver(_, _)
SumOver(f, keys) ==
    IF keys = {} THEN 0
    ELSE LET k == CHOOSE x \in keys : TRUE
         IN  f[k] + SumOver(f, keys \ {k})

\* The run of merge_and_sort has ended, by a return or by an exception.
MergeEnded == mpc \in {"merged", "remerged", "raised"}

\* C32: an input record that cannot be interpreted never aborts the
\* merge: whatever the lines of the input files and whichever of the files
\* exist, merge_and_sort returns, and its output holds every event record
\* of the files that exist.
C32_NeverAborts ==
    MergeEnded =>
        /\ mstats.exc = "none"
        /\ FramesOf(Values(mout)) = FramesOfFiles(ValidRecordsOfFiles(minputs))

KeyOf(r) == IF "ts" \in DOMAIN r THEN r.ts ELSE 0

\* The records of s with key k, in the order of s.
WithKey(s, k) ==
    LET has(r) == KeyOf(r) = k
    IN  SelectSeq(s, has)

FramesSeq(s) == [i \in 1..Len(s) |-> Frame(s[i])]

\* C35: the merge's sort is stable: the output is in non-decreasing order
\* of ts, and the records of one ts are in the order in which they were
\* read, the input files in the order they are listed in and the lines of
\* a file in line order; a record without a ts is placed as one of ts 0.
C35_StableMerge ==
    mpc = "merged" =>
        LET out    == FramesSeq(Values(mout))
            loaded == FramesSeq(LoadRecords(ValidRecordsOfFiles(minputs)))
        IN  /\ \A i \in 1..(Len(out) - 1) : KeyOf(out[i]) <= KeyOf(out[i + 1])
            /\ \A k \in 0..MaxMergeTs : WithKey(out, k) = WithKey(loaded, k)

\* C35 witness: a merge that moved a record, and in which a record without
\* a ts from the first file and a record of ts 0 from the second file, both
\* read after a record of a later ts, were written in the order read.
C35_Witness ==
    /\ mpc = "merged"
    /\ Len(mout) = 3
    /\ Len(ValidRecords(minputs[1])) = 2
    /\ Len(ValidRecords(minputs[2])) = 1
    /\ KeyOf(ValidRecords(minputs[1])[1]) = 1
    /\ "ts" \notin DOMAIN ValidRecords(minputs[1])[2]
    /\ Get(ValidRecords(minputs[2])[1], "ts", 1) = 0
    /\ Frame(mout[1].value) = Frame(ValidRecords(minputs[1])[2])
    /\ Frame(mout[2].value) = Frame(ValidRecords(minputs[2])[1])
    /\ Frame(mout[1].value) # Frame(mout[2].value)

\* C36: merge_and_sort is idempotent: run on the one stream a merge
\* wrote, it writes that stream again, line for line, every delayMs
\* included.
C36_MergeIdempotent == mpc = "remerged" => magain = mout

\* C36 witness: a second run on the output of a merge that reordered its
\* input and wrote a delayMs other than 0.
C36_Witness ==
    /\ mpc = "remerged"
    /\ magain = mout
    /\ FramesSeq(Values(mout)) # FramesSeq(LoadRecords(ValidRecordsOfFiles(minputs)))
    /\ \E i \in 1..Len(mout) : mout[i].value.delayMs > 0
    /\ \E i \in 1..Len(mout) : "ts" \notin DOMAIN mout[i].value

(***************************************************************************)
(* transform_for_pplmag.py                                                 *)
(***************************************************************************)
DEFAULT_SERIES == "pplmag-site-puzzler"
DEFAULT_PUZZLE_ID == "ce996e5f"

SUPPORTED ==
    { <<"GET", "/api/v1/puzzles">>,
      <<"GET", "/api/v1/plays">>,
      <<"POST", "/api/v1/plays">>,
      <<"GET", "/crossword">>,
      <<"POST", "/postPickerStatus">> }

\* event[k] = v
Put(d, k, v) == [x \in DOMAIN d \cup {k} |-> IF x = k THEN v ELSE d[x]]

\* Mutant of RewriteMethod: the method is left as it was read.
RewriteMethod_None(ev) == ev

\* FIX 1: GET /postPickerStatus -> POST (a missing method reads as GET).
RewriteMethod(ev) ==
    IF Get(ev, "endpoint", "") = "/postPickerStatus" /\ Get(ev, "method", "GET") = "GET"
    THEN Put(ev, "method", "POST")
    ELSE ev

\* FIX 2: (method, endpoint) in SUPPORTED, with the local `method` after FIX 1.
Kept(ev) ==
    <<Get(RewriteMethod(ev), "method", "GET"), Get(ev, "endpoint", "")>> \in SUPPORTED

\* not event.get(k)
Unset(ev, k) == k \notin DOMAIN ev \/ ev[k] = ""

\* FIX 3: default missing series / puzzleId.
FillDefaults(ev) ==
    LET e1 == IF Unset(ev, "series") THEN Put(ev, "series", DEFAULT_SERIES) ELSE ev
    IN  IF Unset(e1, "puzzleId") THEN Put(e1, "puzzleId", DEFAULT_PUZZLE_ID) ELSE e1

\* One pass of the loop over the lines of the input file: what it writes.
TransformLine(l) ==
    IF l.kind # "object" THEN <<>>
    ELSE IF ~Kept(l.value) THEN <<>>
    ELSE <<DumpLine(FillDefaults(RewriteMethod(l.value)))>>

RECURSIVE Transform(_)
Transform(lines) ==
    IF lines = <<>> THEN <<>>
    ELSE TransformLine(Head(lines)) \o Transform(Tail(lines))

\* The lines read before event.get raises on a value that is not a dict
\* (all of them when no line is such a value).
RECURSIVE BeforeRaise(_)
BeforeRaise(lines) ==
    IF lines = <<>> \/ Head(lines).kind = "value" THEN <<>>
    ELSE <<Head(lines)>> \o BeforeRaise(Tail(lines))

TransformEndpoints == {"/api/v1/plays", "/postPickerStatus", "/date-picker"}

\* An event of a traffic stream: with a method (pplmag_extractor) or without
\* (log_traffic_extractor), and with a series when the stream carries one.
TransformEvent(t, e, meth, series) ==
    LET base == [ts |-> t, endpoint |-> e, userId |-> "u1",
                 delayMs |-> PlantedDelayMs, isLastReq |-> 0]
        e1   == IF meth = "" THEN base ELSE Put(base, "method", meth)
    IN  IF series = "" THEN e1 ELSE Put(e1, "series", series)

\* The line shapes of an input file: the three that are no event, and the
\* events by endpoint and method.
TransformShapes ==
    { [kind |-> k, endpoint |-> "", method |-> ""] : k \in {"blank", "junk", "value"} }
    \cup
    { [kind |-> "object", endpoint |-> e, method |-> meth] :
        e \in TransformEndpoints, meth \in {"", "GET", "POST"} }

\* An input file: a stream sorted by ts (the event of line i has ts i), all
\* of its events with a series or all without.
TransformInput(shapes, series) ==
    [i \in 1..Len(shapes) |->
        IF shapes[i].kind = "object"
        THEN [kind |-> "object",
              value |-> TransformEvent(i, shapes[i].endpoint, shapes[i].method, series)]
        ELSE [kind |-> shapes[i].kind, value |-> <<>>]]

\* The input file holds MaxTransformLines lines at most.
TransformInit ==
    /\ \E n \in 0..MaxTransformLines :
          \E shapes \in [1..n -> TransformShapes] : \E series \in {"", "mini"} :
              tinput = TransformInput(shapes, series)
    /\ toutput = <<>>
    /\ tpc = "start"
    /\ minputs = <<>> /\ mstats = <<>> /\ mout = <<>> /\ magain = <<>> /\ mpc = "done"
    /\ logs = [f \in Sources |-> <<>>]
    /\ built = [f \in Sources |-> <<>>]
    /\ merged = [j \in MergeJobs \cup {"ALT"} |-> <<>>]
    /\ altDelay = 0
    /\ ppc = "done"
    /\ rps = 1 /\ duration = 0 /\ wave_num = 0 /\ pc = "returned" /\ nsub = 0
    /\ fut = <<>> /\ yielded = {} /\ wave_results = <<>> /\ waves = <<>>
    /\ all_results = <<>> /\ active = {} /\ launches = <<>>
    /\ elapsed = 0 /\ sleep_time = 0 /\ ran = <<>> /\ slept = 0
    /\ NoFlow
    /\ NoLine

\* transform(input_path, output_path) runs to its end.
TransformRun ==
    /\ tpc = "start"
    /\ BeforeRaise(tinput) = tinput
    /\ toutput' = Transform(tinput)
    /\ tpc' = "written"
    /\ UNCHANGED <<tinput, minputs, mstats, mout, magain, mpc>>
    /\ UNCHANGED <<pipeVars, waveVars, flowVars, lineVars>>

\* event.get raises AttributeError on a line that is valid JSON but no
\* object: the output file keeps what was written before that line.
TransformRaises ==
    /\ tpc = "start"
    /\ BeforeRaise(tinput) # tinput
    /\ toutput' = Transform(BeforeRaise(tinput))
    /\ tpc' = "raised"
    /\ UNCHANGED <<tinput, minputs, mstats, mout, magain, mpc>>
    /\ UNCHANGED <<pipeVars, waveVars, flowVars, lineVars>>

TransformNext ==
    \/ TransformRun
    \/ TransformRaises

SpecTransform == TransformInit /\ [][TransformNext]_vars

\* The events of the input file, in line order.
InputEvents ==
    LET object(l) == l.kind = "object"
    IN  Values(SelectSeq(tinput, object))

\* The method an event is filtered by: its own, GET when it has none, and
\* POST for a GET of /postPickerStatus.
FilterMethod(ev) ==
    LET meth == IF "method" \in DOMAIN ev THEN ev.method ELSE "GET"
    IN  IF ev.endpoint = "/postPickerStatus" /\ meth = "GET" THEN "POST" ELSE meth

FrameFields == {"ts", "userId", "delayMs", "isLastReq"}

\* C37: transform keeps exactly the input events whose (method, endpoint)
\* is in SUPPORTED once a GET of /postPickerStatus is rewritten to POST (an
\* event without a method counts as a GET), keeps them in their relative
\* order, and leaves the ts, userId, delayMs and isLastReq of every kept
\* event as they were: delayMs is not recomputed after events are dropped.
C37_TransformKeepsSupported ==
    tpc = "written" =>
        LET supported(ev) == <<FilterMethod(ev), ev.endpoint>> \in SUPPORTED
            kept == SelectSeq(InputEvents, supported)
        IN  /\ Len(toutput) = Len(kept)
            /\ \A i \in 1..Len(kept) :
                   /\ toutput[i].kind = "object"
                   /\ toutput[i].value.endpoint = kept[i].endpoint
                   /\ IF "method" \in DOMAIN toutput[i].value
                      THEN toutput[i].value.method = FilterMethod(kept[i])
                      ELSE "method" \notin DOMAIN kept[i]
                   /\ \A k \in FrameFields :
                          /\ k \in DOMAIN toutput[i].value
                          /\ toutput[i].value[k] = kept[i][k]

\* C37 witness: a run that dropped the event between two events it kept, a
\* GET of /postPickerStatus rewritten to POST and an event without a method,
\* each written with the ts and the delayMs it was read with.
C37_Witness ==
    /\ tpc = "written"
    /\ Len(tinput) = 3
    /\ Len(InputEvents) = 3
    /\ InputEvents[1].endpoint = "/postPickerStatus"
    /\ Get(InputEvents[1], "method", "") = "GET"
    /\ InputEvents[2].endpoint = "/date-picker"
    /\ InputEvents[3].endpoint = "/api/v1/plays"
    /\ "method" \notin DOMAIN InputEvents[3]
    /\ Len(toutput) = 2
    /\ toutput[1].value.method = "POST"
    /\ toutput[1].value.ts = 1 /\ toutput[2].value.ts = 3
    /\ toutput[1].value.delayMs = PlantedDelayMs
    /\ toutput[2].value.delayMs = PlantedDelayMs

====
